---- MODULE Spec2Model ----
(***************************************************************************)
(* VoiceForge MCP server: the fuzzy resolution, combo parsing and scoring  *)
(* engine of src/index.ts, over the static catalogs of                     *)
(* src/data/benchmarks.ts.                                                 *)
(*                                                                         *)
(* Representation.                                                         *)
(*   - A JavaScript string is a TLA+ string; Ch(s, i) is its i-th          *)
(*     character (1-based).  All model strings are over Alphabet.          *)
(*   - A `string | null` result uses nullStr for null; an `object | null`  *)
(*     result uses the record null.  An absent optional field (model?:)    *)
(*     holds nullStr.                                                      *)
(*   - Numbers that are not integers in the source are scaled to integers: *)
(*     quality is held in tenths (4.5 -> 45), costPerMin in thousandths    *)
(*     (0.007 -> 7) and a score in tenths (74.1 -> 741).                   *)
(***************************************************************************)
EXTENDS Integers, Sequences, FiniteSets, TLC

VARIABLES BENCHMARK_DATA, pc, call, result

vars == <<BENCHMARK_DATA, pc, call, result>>

null == [isNull |-> TRUE]

nullStr == "<null>"

Max(a, b) == IF a >= b THEN a ELSE b

Min(a, b) == IF a <= b THEN a ELSE b

\* Math.abs
Abs(x) == IF x < 0 THEN -x ELSE x

\* const x = <value>; <Body>: the value is computed once and Body reads it
With(x, Body(_)) == CHOOSE y \in {Body(v) : v \in {x}} : TRUE

-----------------------------------------------------------------------------
(* Strings                                                                 *)

Ch(s, i) == SubSeq(s, i, i)

Chars(s) == {Ch(s, i) : i \in 1..Len(s)}

LowerLetters == "abcdefghijklmnopqrstuvwxyz"

UpperLetters == "ABCDEFGHIJKLMNOPQRSTUVWXYZ"

Digits == "0123456789"

Punctuation == " -._+,>!"

Alnum == Chars(LowerLetters) \cup Chars(Digits)

Upper == Chars(UpperLetters)

Alphabet == Alnum \cup Upper \cup Chars(Punctuation)

\* the character class [^a-z0-9] within Alphabet
NonAlnum == Alphabet \ Alnum

\* the character class \s within Alphabet
Whitespace == {" "}

MinOf(S) == CHOOSE x \in S : \A y \in S : x <= y

MaxOf(S) == CHOOSE x \in S : \A y \in S : x >= y

\* String.prototype.startsWith
StartsWith(s, p) == Len(p) <= Len(s) /\ SubSeq(s, 1, Len(p)) = p

\* String.prototype.slice(n) with 0 <= n
SliceFrom(s, n) == IF n >= Len(s) THEN "" ELSE SubSeq(s, n + 1, Len(s))

\* String.prototype.slice(0, n) with 0 <= n
SliceTo(s, n) == IF n >= Len(s) THEN s ELSE SubSeq(s, 1, n)

\* String.prototype.includes
Includes(s, p) == \E i \in 0..(Len(s) - Len(p)) : SubSeq(s, i + 1, i + Len(p)) = p

\* String.prototype.toLowerCase, character by character; the text is
\* converted by halves
LowerChar(c) ==
  IF c \in Upper THEN Ch(LowerLetters, CHOOSE k \in 1..26 : Ch(UpperLetters, k) = c) ELSE c

RECURSIVE LowerFrom(_, _, _)
LowerFrom(s, lo, hi) ==
  IF lo > hi THEN ""
  ELSE IF lo = hi THEN LowerChar(Ch(s, lo))
  ELSE LowerFrom(s, lo, (lo + hi) \div 2) \o LowerFrom(s, (lo + hi) \div 2 + 1, hi)

toLowerCase(s) == With(s, LAMBDA text : LowerFrom(text, 1, Len(text)))

\* String.prototype.replace(/[cls]+/g, rep): every maximal run of characters
\* of cls becomes one rep: its first character yields rep, the others nothing.
ReplaceRunsAt(s, i, cls, rep) ==
  IF Ch(s, i) \in cls
  THEN (IF i > 1 /\ Ch(s, i - 1) \in cls THEN "" ELSE rep)
  ELSE Ch(s, i)

RECURSIVE ReplaceRunsFrom(_, _, _, _, _)
ReplaceRunsFrom(s, lo, hi, cls, rep) ==
  IF lo > hi THEN ""
  ELSE IF lo = hi THEN ReplaceRunsAt(s, lo, cls, rep)
  ELSE ReplaceRunsFrom(s, lo, (lo + hi) \div 2, cls, rep)
         \o ReplaceRunsFrom(s, (lo + hi) \div 2 + 1, hi, cls, rep)

ReplaceRuns(s, cls, rep) == With(s, LAMBDA text : ReplaceRunsFrom(text, 1, Len(text), cls, rep))

\* String.prototype.trim
trim(s) ==
  LET kept == {i \in 1..Len(s) : Ch(s, i) \notin Whitespace}
  IN  IF kept = {} THEN "" ELSE SubSeq(s, MinOf(kept), MaxOf(kept))

\* String.prototype.split(/\s+/): the pieces between the maximal runs of
\* whitespace; a leading or trailing run yields an empty first or last piece.
RECURSIVE SplitWhitespace(_)
SplitWhitespace(s) ==
  LET blanks == {i \in 1..Len(s) : Ch(s, i) \in Whitespace}
  IN  IF blanks = {} THEN <<s>>
      ELSE LET a == MinOf(blanks)
               b == MinOf({i \in a..Len(s) : i + 1 \notin blanks})
           IN  <<SliceTo(s, a - 1)>> \o SplitWhitespace(SliceFrom(s, b))

\* String.prototype.localeCompare on strings of letters and digits: the
\* letters are compared without case first (digits before letters); strings
\* that differ in case only are ordered by their first difference, the
\* lowercase letter first.  The result is -1, 0 or 1.
RECURSIVE PrimaryCompare(_, _, _)
PrimaryCompare(a, b, i) ==
  IF i > Len(a) /\ i > Len(b) THEN 0
  ELSE IF i > Len(a) THEN -1
  ELSE IF i > Len(b) THEN 1
  ELSE IF Ch(a, i) = Ch(b, i) THEN PrimaryCompare(a, b, i + 1)
  ELSE With(CHOOSE k \in 1..36 : Ch(Digits \o LowerLetters, k) = Ch(a, i),
            LAMBDA ka : IF ka < (CHOOSE k \in 1..36 : Ch(Digits \o LowerLetters, k) = Ch(b, i))
                        THEN -1 ELSE 1)

CaseCompare(a, b) ==
  With({i \in 1..Len(a) : Ch(a, i) # Ch(b, i)},
       LAMBDA differ : IF differ = {} THEN 0
                       ELSE IF Ch(a, MinOf(differ)) \in Upper THEN 1 ELSE -1)

localeCompare(a, b) ==
  With(PrimaryCompare(toLowerCase(a), toLowerCase(b), 1),
       LAMBDA primary : IF primary # 0 THEN primary ELSE CaseCompare(a, b))

\* Array.prototype.join
RECURSIVE Join(_, _)
Join(parts, sep) ==
  IF Len(parts) = 0 THEN ""
  ELSE IF Len(parts) = 1 THEN parts[1]
  ELSE parts[1] \o sep \o Join(Tail(parts), sep)

-----------------------------------------------------------------------------
(* Arrays                                                                  *)

\* Array.prototype.sort with comparator "Before(a, b) iff compare(a, b) < 0":
\* the sort is stable, so an element goes after every element it does not
\* precede.
StableSort(s, Before(_, _)) ==
  LET Insert(sorted, x) ==
        IF \A j \in 1..Len(sorted) : ~Before(x, sorted[j])
        THEN Append(sorted, x)
        ELSE LET k == CHOOSE k \in 1..Len(sorted) :
                        /\ Before(x, sorted[k])
                        /\ \A j \in 1..(k - 1) : ~Before(x, sorted[j])
             IN  SubSeq(sorted, 1, k - 1) \o <<x>> \o SubSeq(sorted, k, Len(sorted))
      f[n \in 0..Len(s)] == IF n = 0 THEN <<>> ELSE Insert(f[n - 1], s[n])
  IN  f[Len(s)]

\* [...new Set(seq)]: first occurrences, in order
Dedup(s) ==
  LET f[n \in 0..Len(s)] ==
        IF n = 0 THEN <<>>
        ELSE IF \E j \in 1..(n - 1) : s[j] = s[n] THEN f[n - 1]
        ELSE Append(f[n - 1], s[n])
  IN  f[Len(s)]

\* Array.prototype.flatMap over a sequence of sequences
RECURSIVE Flatten(_)
Flatten(ss) == IF Len(ss) = 0 THEN <<>> ELSE Head(ss) \o Flatten(Tail(ss))

Range(s) == {s[i] : i \in 1..Len(s)}

-----------------------------------------------------------------------------
(* Constants and alias tables                                              *)

MAX_RESULTS == 10

MIN_PROVIDER_INPUT_LENGTH == 3

MIN_LANGUAGE_PREFIX_LENGTH == 3

PROVIDER_ALIASES ==
  << [provider |-> "Deepgram",     aliases |-> <<"deepgram", "deep gram">>],
     [provider |-> "AssemblyAI",   aliases |-> <<"assemblyai", "assembly ai", "assembly">>],
     [provider |-> "OpenAI",       aliases |-> <<"openai", "open ai", "open-ai", "gpt", "chatgpt">>],
     [provider |-> "Speechmatics", aliases |-> <<"speechmatics", "speech-matics", "speech matics">>],
     [provider |-> "Google",       aliases |-> <<"google", "gemini">>],
     [provider |-> "Anthropic",    aliases |-> <<"anthropic", "claude", "claude ai">>],
     [provider |-> "Groq",         aliases |-> <<"groq", "llama", "llama 4", "llama-4", "llama4">>],
     [provider |-> "Cartesia",     aliases |-> <<"cartesia", "cartes ia">>],
     [provider |-> "ElevenLabs",   aliases |-> <<"elevenlabs", "eleven labs", "eleven", "eleven-labs">>],
     [provider |-> "PlayHT",       aliases |-> <<"playht", "play ht", "play-ht">>],
     [provider |-> "Rime",         aliases |-> <<"rime", "rime ai">>] >>

ALL_PROVIDERS == [i \in 1..Len(PROVIDER_ALIASES) |-> PROVIDER_ALIASES[i].provider]

-----------------------------------------------------------------------------
(* Text normalization                                                      *)

normalizeTerm(value) ==
  ReplaceRuns(trim(ReplaceRuns(toLowerCase(value), NonAlnum, " ")), Whitespace, " ")

normalizeProviderInput(input) == normalizeTerm(input)

\* .replace(/^-|-$/g, ""): one leading and one trailing hyphen are dropped
StripHyphens(s) ==
  With(IF Len(s) > 0 /\ Ch(s, 1) = "-" THEN SliceFrom(s, 1) ELSE s,
       LAMBDA t : IF Len(t) > 0 /\ Ch(t, Len(t)) = "-" THEN SliceTo(t, Len(t) - 1) ELSE t)

\* the slug before .slice(0, 80)
SlugOf(value) ==
  With(normalizeTerm(value),
       LAMBDA normalized :
         With(ReplaceRuns(normalized, NonAlnum, "-"),
              LAMBDA hyphenated :
                With(ReplaceRuns(hyphenated, {"-"}, "-"),
                     LAMBDA single : StripHyphens(single))))

toSafeSlug(value) == With(SlugOf(value), LAMBDA slug : SliceTo(slug, 80))

-----------------------------------------------------------------------------
(* Provider resolution                                                     *)

\* a catalog sorted shortest alias first: a.alias.length - b.alias.length
AliasLengthAscending(a, b) == Len(a.alias) - Len(b.alias) < 0

\* the comparator of the catalog sort: (a, b) => b.alias.length - a.alias.length
AliasLengthDescending(a, b) == Len(b.alias) - Len(a.alias) < 0

PROVIDER_ALIAS_CATALOG ==
  LET perProvider(e) ==
        LET allAliases ==
              SelectSeq(
                Dedup([i \in 1..(Len(e.aliases) + 1) |->
                         normalizeProviderInput(
                           IF i = 1 THEN e.provider ELSE e.aliases[i - 1])]),
                LAMBDA a : a # "")
        IN  [i \in 1..Len(allAliases) |->
               [provider |-> e.provider, alias |-> allAliases[i]]]
  IN  StableSort(Flatten([i \in 1..Len(PROVIDER_ALIASES) |-> perProvider(PROVIDER_ALIASES[i])]),
              AliasLengthDescending)

\* a scan that takes an alias when the alias is a prefix of the input:
\* normalized.startsWith(candidate.alias)
AliasAccepts_AliasIsPrefix(alias, normalized) ==
  \/ alias = normalized
  \/ StartsWith(normalized, alias)
  \/ StartsWith(normalized, alias \o " ")

\* the condition of the scan's if statement
AliasAccepts(alias, normalized) ==
  \/ alias = normalized
  \/ StartsWith(alias, normalized)
  \/ StartsWith(normalized, alias \o " ")

\* the for loop over the catalog: the first candidate the scan accepts
FirstCandidate(catalog, normalized) ==
  With({i \in 1..Len(catalog) :
          /\ ~(Len(catalog[i].alias) < MIN_PROVIDER_INPUT_LENGTH)
          /\ AliasAccepts(catalog[i].alias, normalized)},
       LAMBDA hits :
         IF hits = {} THEN null
         ELSE With(catalog[MinOf(hits)],
                   LAMBDA candidate :
                     [provider |-> candidate.provider, matchedAlias |-> candidate.alias]))

resolveProviderMatch(input) ==
  With(normalizeProviderInput(input),
       LAMBDA normalized :
         IF normalized = "" \/ Len(normalized) < MIN_PROVIDER_INPUT_LENGTH THEN null
         ELSE With(PROVIDER_ALIAS_CATALOG, LAMBDA catalog : FirstCandidate(catalog, normalized)))

resolveProvider(input) ==
  With(resolveProviderMatch(input),
       LAMBDA resolved : IF resolved # null THEN resolved.provider ELSE nullStr)

-----------------------------------------------------------------------------
(* Benchmark catalog (src/data/benchmarks.ts)                              *)
(* quality and mos in tenths, costPerMin in thousandths; mos = 0 and the   *)
(* notes text stand for fields the engine only prints.                     *)

BenchmarkRows ==
  << [stt |-> "Deepgram", sttModel |-> "nova-3", llm |-> "OpenAI", llmModel |-> "gpt-4.1-mini",
      tts |-> "Cartesia", ttsModel |-> "sonic-3", latencyMs |-> 168, quality |-> 45, costPerMin |-> 7,
      mos |-> 43, languages |-> <<"Thai", "English", "Vietnamese", "Indonesian", "Japanese", "Korean">>],
     [stt |-> "Deepgram", sttModel |-> "nova-3", llm |-> "Groq", llmModel |-> "llama-4-maverick",
      tts |-> "Cartesia", ttsModel |-> "sonic-3", latencyMs |-> 156, quality |-> 42, costPerMin |-> 5,
      mos |-> 0, languages |-> <<"Thai", "English">>],
     [stt |-> "Deepgram", sttModel |-> "nova-3", llm |-> "OpenAI", llmModel |-> "gpt-4.1",
      tts |-> "ElevenLabs", ttsModel |-> "turbo_v2.5", latencyMs |-> 215, quality |-> 45, costPerMin |-> 14,
      mos |-> 45, languages |-> <<"Thai", "English", "Japanese">>],
     [stt |-> "AssemblyAI", sttModel |-> "universal-3-pro", llm |-> "OpenAI", llmModel |-> "gpt-4.1-mini",
      tts |-> "Cartesia", ttsModel |-> "sonic-3", latencyMs |-> 178, quality |-> 44, costPerMin |-> 8,
      mos |-> 42, languages |-> <<"English", "Vietnamese", "Filipino", "Cantonese">>],
     [stt |-> "OpenAI", sttModel |-> "gpt-4o-transcribe", llm |-> "OpenAI", llmModel |-> "gpt-4.1",
      tts |-> "ElevenLabs", ttsModel |-> "eleven_v3", latencyMs |-> 287, quality |-> 48, costPerMin |-> 22,
      mos |-> 48, languages |-> <<"English", "Japanese", "Korean">>],
     [stt |-> "Speechmatics", sttModel |-> "enhanced", llm |-> "OpenAI", llmModel |-> "gpt-4.1-mini",
      tts |-> "Rime", ttsModel |-> "arcana-v3", latencyMs |-> 205, quality |-> 42, costPerMin |-> 8,
      mos |-> 0, languages |-> <<"Thai", "English", "Cantonese">>],
     [stt |-> "Deepgram", sttModel |-> "nova-3", llm |-> "Google", llmModel |-> "gemini-2.5-pro",
      tts |-> "PlayHT", ttsModel |-> "play-3.0-mini", latencyMs |-> 268, quality |-> 41, costPerMin |-> 8,
      mos |-> 41, languages |-> <<"English", "Indonesian", "Filipino">>],
     [stt |-> "Google", sttModel |-> "chirp-3", llm |-> "Groq", llmModel |-> "llama-4-maverick",
      tts |-> "Cartesia", ttsModel |-> "sonic-3", latencyMs |-> 195, quality |-> 40, costPerMin |-> 6,
      mos |-> 0, languages |-> <<"English", "Vietnamese", "Japanese", "Korean">>],
     [stt |-> "Deepgram", sttModel |-> "nova-3", llm |-> "ElevenLabs", llmModel |-> "eleven-turbo",
      tts |-> "ElevenLabs", ttsModel |-> "eleven_v3", latencyMs |-> 142, quality |-> 41, costPerMin |-> 4,
      mos |-> 0, languages |-> <<"Thai", "English", "Vietnamese", "Indonesian">>],
     [stt |-> "Deepgram", sttModel |-> "nova-3", llm |-> "Google", llmModel |-> "gemini-2.5-flash",
      tts |-> "Cartesia", ttsModel |-> "sonic-3", latencyMs |-> 148, quality |-> 42, costPerMin |-> 4,
      mos |-> 0, languages |-> <<"English", "Thai", "Vietnamese", "Filipino", "Indonesian">>],
     [stt |-> "Deepgram", sttModel |-> "nova-3", llm |-> "Anthropic", llmModel |-> "claude-sonnet-4-5",
      tts |-> "Cartesia", ttsModel |-> "sonic-3", latencyMs |-> 198, quality |-> 46, costPerMin |-> 9,
      mos |-> 0, languages |-> <<"English", "Japanese", "Korean", "Thai">>],
     [stt |-> "AssemblyAI", sttModel |-> "universal-3-pro", llm |-> "ElevenLabs", llmModel |-> "eleven-turbo",
      tts |-> "ElevenLabs", ttsModel |-> "turbo_v2.5", latencyMs |-> 210, quality |-> 40, costPerMin |-> 6,
      mos |-> 0, languages |-> <<"English", "Cantonese", "Japanese">>] >>

SUPPORTED_LANGUAGES ==
  <<"English", "Thai", "Vietnamese", "Indonesian", "Filipino",
    "Japanese", "Korean", "Cantonese", "Mandarin", "Malay">>

\* PROVIDER_INFO: per category, the providers in key order with their models
PROVIDER_INFO ==
  [stt |-> << [provider |-> "Deepgram",     models |-> <<"nova-3", "nova-2">>],
              [provider |-> "AssemblyAI",   models |-> <<"universal-3-pro">>],
              [provider |-> "OpenAI",       models |-> <<"gpt-4o-transcribe", "whisper-large-v3">>],
              [provider |-> "Speechmatics", models |-> <<"enhanced">>],
              [provider |-> "Google",       models |-> <<"chirp-3">>] >>,
   llm |-> << [provider |-> "OpenAI",     models |-> <<"gpt-4.1-mini", "gpt-4.1">>],
              [provider |-> "Anthropic",  models |-> <<"claude-sonnet-4-5">>],
              [provider |-> "Google",     models |-> <<"gemini-2.5-flash", "gemini-2.5-pro">>],
              [provider |-> "Groq",       models |-> <<"llama-4-maverick">>],
              [provider |-> "ElevenLabs", models |-> <<"eleven-turbo">>] >>,
   tts |-> << [provider |-> "Cartesia",   models |-> <<"sonic-3">>],
              [provider |-> "ElevenLabs", models |-> <<"eleven_v3", "turbo_v2.5">>],
              [provider |-> "PlayHT",     models |-> <<"play-3.0-mini">>],
              [provider |-> "Rime",       models |-> <<"arcana-v3">>] >>]

-----------------------------------------------------------------------------
(* Provider + model and combo parsing                                      *)

\* inputWords.slice(aliasWords).join(" ").trim()
WordsAfter(inputWords, aliasWords) ==
  trim(Join(IF aliasWords >= Len(inputWords) THEN <<>>
            ELSE SubSeq(inputWords, aliasWords + 1, Len(inputWords)), " "))

\* the part of parseProviderWithModel after the provider is resolved
ModelAfterAlias(input, normalized, resolved) ==
  With(trim(SliceFrom(normalized, Len(resolved.matchedAlias))),
       LAMBDA normalizedRemainder :
         IF normalizedRemainder = ""
         THEN [provider |-> resolved.provider, model |-> nullStr]
         ELSE With(WordsAfter(SplitWhitespace(trim(input)),
                              Len(SplitWhitespace(resolved.matchedAlias))),
                   LAMBDA originalModel :
                     [provider |-> resolved.provider,
                      model |-> IF originalModel # "" THEN originalModel
                                ELSE normalizedRemainder]))

parseProviderWithModel(input) ==
  With(normalizeProviderInput(input),
       LAMBDA normalized :
         IF normalized = "" THEN null
         ELSE With(resolveProviderMatch(input),
                   LAMBDA resolved :
                     IF resolved = null THEN null
                     ELSE ModelAfterAlias(input, normalized, resolved)))

\* desc.split(/\s*(?:\+|,|->)\s*/): the pieces between the separators "+",
\* "," and "->"; the whitespace the pattern takes around a separator is
\* taken again by the trim that parseComboInput maps over the pieces.
RECURSIVE SplitCombo(_)
SplitCombo(desc) ==
  LET seps == {i \in 1..Len(desc) :
                 Ch(desc, i) \in {"+", ","} \/ (i < Len(desc) /\ SubSeq(desc, i, i + 1) = "->")}
  IN  IF seps = {} THEN <<desc>>
      ELSE LET a == MinOf(seps)
               w == IF Ch(desc, a) = "-" THEN 2 ELSE 1
           IN  <<SliceTo(desc, a - 1)>> \o SplitCombo(SliceFrom(desc, a + w - 1))

ComboParts(desc) ==
  With(SplitCombo(desc),
       LAMBDA pieces :
         SelectSeq([i \in 1..Len(pieces) |-> trim(pieces[i])], LAMBDA part : part # ""))

\* the three parsed parts as the combo object, null when one did not parse
ComboOf(stt, llm, tts) ==
  IF stt = null \/ llm = null \/ tts = null THEN null
  ELSE [stt |-> stt, llm |-> llm, tts |-> tts]

\* a parse without the segment count check: the first three segments are taken
parseComboInput_FirstThree(desc) ==
  With(ComboParts(desc),
       LAMBDA parts :
         IF Len(parts) < 3 THEN null
         ELSE With([i \in 1..3 |-> parseProviderWithModel(parts[i])],
                   LAMBDA parsed : ComboOf(parsed[1], parsed[2], parsed[3])))

parseComboInput(desc) ==
  With(ComboParts(desc),
       LAMBDA parts :
         IF Len(parts) # 3 THEN null
         ELSE With([i \in 1..3 |-> parseProviderWithModel(parts[i])],
                   LAMBDA parsed : ComboOf(parsed[1], parsed[2], parsed[3])))

\* a description that joins the three parts with spaces only
describeParsedCombo_Spaces(combo) ==
  LET stringifyPart(p) == p.provider \o (IF p.model # nullStr THEN " " \o p.model ELSE "")
  IN  stringifyPart(combo.stt) \o " " \o stringifyPart(combo.llm) \o " " \o stringifyPart(combo.tts)

describeParsedCombo(combo) ==
  LET stringifyPart(p) == p.provider \o (IF p.model # nullStr THEN " " \o p.model ELSE "")
  IN  stringifyPart(combo.stt) \o " + " \o stringifyPart(combo.llm) \o " + " \o stringifyPart(combo.tts)

normalizeModel(model) == ReplaceRuns(normalizeTerm(model), Whitespace, "-")

\* a comparison of the model names as written: modelA === modelB
modelMatches_Verbatim(modelA, modelB) == modelA = modelB

modelMatches(modelA, modelB) == normalizeModel(modelA) = normalizeModel(modelB)

makeProviderMatch(input, provider) ==
  With(resolveProvider(input),
       LAMBDA normalizedInput :
         IF normalizedInput = nullStr THEN FALSE
         ELSE normalizeTerm(normalizedInput) = normalizeTerm(provider))

\* a filter that leaves the TTS provider of the row unchecked
ComboMatchesEntry_AnyTts(parsed, entry) ==
  /\ makeProviderMatch(parsed.stt.provider, entry.stt)
  /\ (parsed.stt.model = nullStr \/ modelMatches(entry.sttModel, parsed.stt.model))
  /\ makeProviderMatch(parsed.llm.provider, entry.llm)
  /\ (parsed.llm.model = nullStr \/ modelMatches(entry.llmModel, parsed.llm.model))
  /\ (parsed.tts.model = nullStr \/ modelMatches(entry.ttsModel, parsed.tts.model))

\* the predicate of the filter in parseComboMatches
ComboMatchesEntry(parsed, entry) ==
  /\ makeProviderMatch(parsed.stt.provider, entry.stt)
  /\ (parsed.stt.model = nullStr \/ modelMatches(entry.sttModel, parsed.stt.model))
  /\ makeProviderMatch(parsed.llm.provider, entry.llm)
  /\ (parsed.llm.model = nullStr \/ modelMatches(entry.llmModel, parsed.llm.model))
  /\ makeProviderMatch(parsed.tts.provider, entry.tts)
  /\ (parsed.tts.model = nullStr \/ modelMatches(entry.ttsModel, parsed.tts.model))

parseComboMatches(combo) ==
  With(parseComboInput(combo),
       LAMBDA parsed :
         IF parsed = null THEN null
         ELSE [parsed |-> parsed,
               entries |-> SelectSeq(BENCHMARK_DATA,
                                     LAMBDA entry : ComboMatchesEntry(parsed, entry))])

-----------------------------------------------------------------------------
(* Language resolution                                                     *)

LANGUAGE_ALIASES ==
  << [lang |-> "english",    aliases |-> <<"en", "eng", "american", "us", "gb">>],
     [lang |-> "thai",       aliases |-> <<"th", "thai", "thai language">>],
     [lang |-> "vietnamese", aliases |-> <<"vi", "viet", "vietnamese">>],
     [lang |-> "indonesian", aliases |-> <<"id", "ind">>],
     [lang |-> "filipino",   aliases |-> <<"tl", "filipino", "tagalog", "ph">>],
     [lang |-> "japanese",   aliases |-> <<"ja", "jp", "nihongo">>],
     [lang |-> "korean",     aliases |-> <<"ko", "kr", "hangul", "korean">>],
     [lang |-> "cantonese",  aliases |-> <<"zh-yue", "cantonese", "kantonees", "cn-cant">>],
     [lang |-> "mandarin",   aliases |-> <<"zh", "zh-cn", "zh-hans", "mandarin">>],
     [lang |-> "malay",      aliases |-> <<"ms", "ms-my", "malay">>] >>

\* Array.prototype.find over a sequence of strings: the first element that
\* satisfies Test, nullStr (for undefined) when there is none
FindString(seq, Test(_)) ==
  LET hits == {i \in 1..Len(seq) : Test(seq[i])}
  IN  IF hits = {} THEN nullStr ELSE seq[MinOf(hits)]

\* a resolution that answers an alias with the key of the alias table
resolveLanguage_AliasKey(input) ==
  LET normalized == normalizeTerm(input)
      direct == FindString(SUPPORTED_LANGUAGES, LAMBDA lang : normalizeTerm(lang) = normalized)
      canonical ==
        FindString([i \in 1..Len(LANGUAGE_ALIASES) |-> LANGUAGE_ALIASES[i].lang],
                   LAMBDA lang :
                     \E e \in Range(LANGUAGE_ALIASES) :
                       /\ e.lang = lang
                       /\ \E alias \in Range(e.aliases) : normalized = normalizeTerm(alias))
      ofCanonical == FindString(SUPPORTED_LANGUAGES, LAMBDA lang : normalizeTerm(lang) = canonical)
      startsWith ==
        FindString(SUPPORTED_LANGUAGES,
                   LAMBDA lang : \/ StartsWith(normalizeTerm(lang), normalized)
                                 \/ StartsWith(normalized, normalizeTerm(lang)))
  IN  IF normalized = "" THEN nullStr
      ELSE IF direct # nullStr THEN direct
      ELSE IF canonical # nullStr
           THEN canonical
      ELSE IF Len(normalized) >= MIN_LANGUAGE_PREFIX_LENGTH /\ startsWith # nullStr
           THEN startsWith
      ELSE nullStr

resolveLanguage(input) ==
  LET normalized == normalizeTerm(input)
      direct == FindString(SUPPORTED_LANGUAGES, LAMBDA lang : normalizeTerm(lang) = normalized)
      canonical ==
        FindString([i \in 1..Len(LANGUAGE_ALIASES) |-> LANGUAGE_ALIASES[i].lang],
                   LAMBDA lang :
                     \E e \in Range(LANGUAGE_ALIASES) :
                       /\ e.lang = lang
                       /\ \E alias \in Range(e.aliases) : normalized = normalizeTerm(alias))
      ofCanonical == FindString(SUPPORTED_LANGUAGES, LAMBDA lang : normalizeTerm(lang) = canonical)
      startsWith ==
        FindString(SUPPORTED_LANGUAGES,
                   LAMBDA lang : \/ StartsWith(normalizeTerm(lang), normalized)
                                 \/ StartsWith(normalized, normalizeTerm(lang)))
  IN  IF normalized = "" THEN nullStr
      ELSE IF direct # nullStr THEN direct
      ELSE IF canonical # nullStr
           THEN (IF ofCanonical # nullStr THEN ofCanonical ELSE canonical)
      ELSE IF Len(normalized) >= MIN_LANGUAGE_PREFIX_LENGTH /\ startsWith # nullStr
           THEN startsWith
      ELSE nullStr

-----------------------------------------------------------------------------
(* Use-case resolution and weights                                         *)

USE_CASE_ALIASES ==
  << [useCase |-> "customer-support",      aliases |-> <<"customer support", "support", "cs", "customer">>],
     [useCase |-> "sales",                 aliases |-> <<"sale", "sales", "revenue">>],
     [useCase |-> "debt-collections",      aliases |-> <<"debt collection", "collections", "collection", "collections team">>],
     [useCase |-> "scheduling",            aliases |-> <<"schedule", "calendar", "appointments", "booking">>],
     [useCase |-> "healthcare-triage",     aliases |-> <<"healthcare", "medical", "triage", "doctor", "clinic">>],
     [useCase |-> "insurance-claims",      aliases |-> <<"claims", "insurance", "insurance claim", "claims ops">>],
     [useCase |-> "lead-qualification",    aliases |-> <<"lead qualify", "leads", "qualification", "lead">>],
     [useCase |-> "appointment-reminders", aliases |-> <<"reminder", "appointment", "notification", "nudge">>],
     [useCase |-> "banking-faq",           aliases |-> <<"banking", "faq", "finance", "compliance">>],
     [useCase |-> "recruitment-screening", aliases |-> <<"recruiting", "recruitment", "screening", "hiring", "interviews">>] >>

USE_CASE_PRIORITIES ==
  << [useCase |-> "debt-collections",      weights |-> [latency |-> 80, quality |-> 60, cost |-> 70]],
     [useCase |-> "sales",                 weights |-> [latency |-> 70, quality |-> 80, cost |-> 50]],
     [useCase |-> "customer-support",      weights |-> [latency |-> 60, quality |-> 90, cost |-> 60]],
     [useCase |-> "scheduling",            weights |-> [latency |-> 90, quality |-> 40, cost |-> 80]],
     [useCase |-> "insurance-claims",      weights |-> [latency |-> 50, quality |-> 95, cost |-> 40]],
     [useCase |-> "lead-qualification",    weights |-> [latency |-> 75, quality |-> 75, cost |-> 55]],
     [useCase |-> "appointment-reminders", weights |-> [latency |-> 85, quality |-> 50, cost |-> 75]],
     [useCase |-> "healthcare-triage",     weights |-> [latency |-> 55, quality |-> 95, cost |-> 45]],
     [useCase |-> "banking-faq",           weights |-> [latency |-> 60, quality |-> 90, cost |-> 60]],
     [useCase |-> "recruitment-screening", weights |-> [latency |-> 65, quality |-> 85, cost |-> 50]] >>

DEFAULT_WEIGHTS == [latency |-> 70, quality |-> 70, cost |-> 60]

UseCaseKeys == {USE_CASE_PRIORITIES[i].useCase : i \in 1..Len(USE_CASE_PRIORITIES)}

\* the property names that a lookup USE_CASE_PRIORITIES[key] finds on
\* Object.prototype and that normalizeUseCase can produce
InheritedKeys == {"constructor"}

\* the truthiness of USE_CASE_PRIORITIES[key]
HasPriorities(key) == key \in UseCaseKeys \/ key \in InheritedKeys

normalizeUseCase(use_case) == ReplaceRuns(normalizeTerm(use_case), Whitespace, "-")

\* the predicate of the find over Object.entries(USE_CASE_ALIASES)
UseCaseEntryAccepts(e, normalized) ==
  \/ e.useCase = normalized
  \/ \E alias \in Range(e.aliases) :
       LET normalizedAlias == normalizeUseCase(alias)
       IN  \/ normalizedAlias = normalized
           \/ StartsWith(normalizedAlias, normalized)
           \/ StartsWith(normalized, normalizedAlias)

resolveUseCase(input) ==
  LET normalized == normalizeUseCase(input)
      hits == {i \in 1..Len(USE_CASE_ALIASES) : UseCaseEntryAccepts(USE_CASE_ALIASES[i], normalized)}
  IN  IF HasPriorities(normalized) THEN normalized
      ELSE IF hits # {} THEN USE_CASE_ALIASES[MinOf(hits)].useCase
      ELSE normalized

-----------------------------------------------------------------------------
(* Scoring and ranking                                                     *)
(* Sub-scores are held in halves (latencyScore2 = 2 * latencyScore), the   *)
(* score in tenths.  On the rows and weights of this model the result      *)
(* equals ten times the IEEE-754 double the source computes.               *)

\* NaN, which no score of a row reaches; an undefined operand of an
\* arithmetic operation acts as NaN
NaN == -1

\* USE_CASE_PRIORITIES["constructor"]: the inherited Object constructor,
\* an object without latency, quality and cost properties
InheritedWeights == [latency |-> NaN, quality |-> NaN, cost |-> NaN]

\* Math.floor in the place of Math.round
MathRound_Floor(num, den) == num \div den

\* Math.round(x) for x = num / den >= 0, den > 0: floor(x + 1/2)
MathRound(num, den) == (2 * num + den) \div (2 * den)

scoreBenchmark(entry, weights) ==
  LET latencyScore2 == Max(0, 200 - (entry.latencyMs - 100))
      qualityScore2 == 4 * entry.quality
      costScore2 == Max(0, 200 - entry.costPerMin * 10)
      weighted2 == latencyScore2 * weights.latency
                     + qualityScore2 * weights.quality
                     + costScore2 * weights.cost
  IN  IF NaN \in {weights.latency, weights.quality, weights.cost} THEN NaN
      ELSE MathRound(weighted2 * 10, 2 * (weights.latency + weights.quality + weights.cost))

\* a comparator that orders by score alone
RankBefore_ScoreOnly(a, b) ==
  IF a.score = NaN \/ b.score = NaN THEN FALSE
  ELSE b.score - a.score < 0

\* a comparator whose latency tie-break is reversed: b.latencyMs - a.latencyMs
RankBefore_LatencyDescending(a, b) ==
  IF a.score = NaN \/ b.score = NaN THEN FALSE
  ELSE IF b.score # a.score THEN b.score - a.score < 0
  ELSE IF a.latencyMs # b.latencyMs THEN b.latencyMs - a.latencyMs < 0
  ELSE IF b.quality # a.quality THEN b.quality - a.quality < 0
  ELSE a.costPerMin - b.costPerMin < 0

\* the comparator of the ranking sort is negative; NaN differs from every
\* number, itself included, and a difference with NaN is NaN, never negative
RankBefore(a, b) ==
  IF a.score = NaN \/ b.score = NaN THEN FALSE
  ELSE IF b.score # a.score THEN b.score - a.score < 0
  ELSE IF a.latencyMs # b.latencyMs THEN a.latencyMs - b.latencyMs < 0
  ELSE IF b.quality # a.quality THEN b.quality - a.quality < 0
  ELSE a.costPerMin - b.costPerMin < 0

\* { ...entry, score }
WithScore(entry, score) ==
  [stt |-> entry.stt, sttModel |-> entry.sttModel, llm |-> entry.llm, llmModel |-> entry.llmModel,
   tts |-> entry.tts, ttsModel |-> entry.ttsModel, latencyMs |-> entry.latencyMs,
   quality |-> entry.quality, costPerMin |-> entry.costPerMin, mos |-> entry.mos,
   languages |-> entry.languages, score |-> score]

rankBenchmarks(entries, weights) ==
  StableSort([i \in 1..Len(entries) |-> WithScore(entries[i], scoreBenchmark(entries[i], weights))],
             RankBefore)

getUseCaseWeights(use_case) ==
  LET normalizedUseCase == resolveUseCase(use_case)
      own == {i \in 1..Len(USE_CASE_PRIORITIES) : USE_CASE_PRIORITIES[i].useCase = normalizedUseCase}
  IN  IF own # {} THEN USE_CASE_PRIORITIES[MinOf(own)].weights
      ELSE IF normalizedUseCase \in InheritedKeys THEN InheritedWeights
      ELSE DEFAULT_WEIGHTS

getObjectiveWeights(optimize_for, use_case) ==
  IF optimize_for = "latency" THEN [latency |-> 100, quality |-> 30, cost |-> 30]
  ELSE IF optimize_for = "quality" THEN [latency |-> 30, quality |-> 100, cost |-> 30]
  ELSE IF optimize_for = "cost" THEN [latency |-> 30, quality |-> 30, cost |-> 100]
  ELSE getUseCaseWeights(use_case)

-----------------------------------------------------------------------------
(* Tool handlers                                                           *)
(* A handler's answer is held as the JSON payload it builds; the markdown  *)
(* text it can return instead prints the same rows and fields.  A number   *)
(* argument is held in halves (max_results 2.5 -> 5).                      *)

\* Array.prototype.slice(0, n)
Take(seq, n) == SubSeq(seq, 1, Min(n, Len(seq)))

\* Math.max(1, Math.min(Math.floor(value), MAX_RESULTS)), value in halves
clampMaxResults(value) == Max(1, Min(value \div 2, MAX_RESULTS))

\* a provider list left in the order of the alias table
listKnownProviders_Unsorted(category) ==
  IF category # nullStr
  THEN [i \in 1..Len(PROVIDER_INFO[category]) |-> PROVIDER_INFO[category][i].provider]
  ELSE ALL_PROVIDERS

\* category is nullStr when the argument is left out
listKnownProviders(category) ==
  StableSort(IF category # nullStr
             THEN [i \in 1..Len(PROVIDER_INFO[category]) |-> PROVIDER_INFO[category][i].provider]
             ELSE ALL_PROVIDERS,
             LAMBDA a, b : localeCompare(a, b) < 0)

\* the truthiness of an optional string argument: given and not empty
Truthy(value) == value # nullStr /\ value # ""

\* LANGUAGE_ALIASES[key] ?? []
AliasesOfLanguage(key) ==
  With({i \in 1..Len(LANGUAGE_ALIASES) : LANGUAGE_ALIASES[i].lang = key},
       LAMBDA own : IF own = {} THEN <<>> ELSE LANGUAGE_ALIASES[MinOf(own)].aliases)

\* the two filters of getLanguageSuggestions, merged without duplicates
NearLanguages(normalized) ==
  Dedup(SelectSeq(SUPPORTED_LANGUAGES,
                  LAMBDA lang : \/ Includes(normalizeTerm(lang), normalized)
                                \/ Includes(normalized, normalizeTerm(lang)))
        \o SelectSeq(SUPPORTED_LANGUAGES,
                     LAMBDA lang : \E alias \in Range(AliasesOfLanguage(normalizeTerm(lang))) :
                                     Includes(normalizeTerm(alias), normalized)))

getLanguageSuggestions(input) ==
  With(normalizeTerm(input),
       LAMBDA normalized :
         IF normalized = "" THEN Take(SUPPORTED_LANGUAGES, 5)
         ELSE Take(NearLanguages(normalized), 5))

\* BENCHMARK_DATA.filter((b) => b.languages.some((l) => l.toLowerCase() === ...))
RowsOfLanguage(rows, resolvedLanguage) ==
  SelectSeq(rows, LAMBDA b : \E l \in Range(b.languages) :
                               toLowerCase(l) = toLowerCase(resolvedLanguage))

\* the text of a response: JSON.stringify of the payload for the json
\* format, held as the payload itself, and the markdown text otherwise,
\* held as a text without content
formatToolResponse(format, jsonPayload) ==
  IF format = "json" THEN [type |-> "text", json |-> jsonPayload]
  ELSE [type |-> "text", markdown |-> TRUE]

\* the response of voiceforge_recommend for its ranked rows: the handler
\* builds the JSON object itself
RecommendResponse(resolvedLanguage, resolvedUseCase, optimize_for, top, output_format) ==
  IF output_format = "json"
  THEN [type |-> "text",
        json |-> [language |-> resolvedLanguage, use_case |-> resolvedUseCase,
                  optimize_for |-> optimize_for, top |-> top]]
  ELSE [type |-> "text", markdown |-> TRUE]

\* kind names the return statement taken; response is what the caller gets
RecommendTop(resolvedLanguage, resolvedUseCase, optimize_for, top, output_format) ==
  [kind |-> "recommendation",
   language |-> resolvedLanguage,
   use_case |-> resolvedUseCase,
   optimize_for |-> optimize_for,
   top |-> top,
   response |-> RecommendResponse(resolvedLanguage, resolvedUseCase, optimize_for, top,
                                  output_format)]

\* the part of voiceforge_recommend after the language is resolved
RecommendFor(resolvedLanguage, resolvedUseCase, optimize_for, max_results, output_format) ==
  With(RowsOfLanguage(BENCHMARK_DATA, resolvedLanguage),
       LAMBDA matching :
         IF Len(matching) = 0
         THEN [kind |-> "no-benchmarks", response |-> [type |-> "text", markdown |-> TRUE]]
         ELSE RecommendTop(resolvedLanguage, resolvedUseCase, optimize_for,
                           Take(rankBenchmarks(matching,
                                               getObjectiveWeights(optimize_for, resolvedUseCase)),
                                clampMaxResults(max_results)),
                           output_format))

voiceforge_recommend(language, use_case, optimize_for, max_results, output_format) ==
  With(resolveLanguage(language),
       LAMBDA resolvedLanguage :
         IF resolvedLanguage = nullStr
         THEN [kind |-> "unrecognized-language", suggestions |-> getLanguageSuggestions(language),
               response |-> [type |-> "text", markdown |-> TRUE]]
         ELSE RecommendFor(resolvedLanguage, resolveUseCase(use_case), optimize_for, max_results,
                           output_format))

\* the three sorts of voiceforge_benchmark
SortRows(results, sort_by) ==
  IF sort_by = "latency" THEN StableSort(results, LAMBDA a, b : a.latencyMs - b.latencyMs < 0)
  ELSE IF sort_by = "cost" THEN StableSort(results, LAMBDA a, b : a.costPerMin - b.costPerMin < 0)
  ELSE StableSort(results, LAMBDA a, b : b.quality - a.quality < 0)

\* the rows of voiceforge_benchmark under its two filters
FilteredRows(language, resolvedLanguage, provider, resolvedProvider) ==
  With(IF Truthy(language) THEN RowsOfLanguage(BENCHMARK_DATA, resolvedLanguage)
       ELSE BENCHMARK_DATA,
       LAMBDA ofLanguage :
         IF Truthy(provider)
         THEN SelectSeq(ofLanguage,
                        LAMBDA b : \E p \in {b.stt, b.llm, b.tts} :
                                     makeProviderMatch(resolvedProvider, p))
         ELSE ofLanguage)

\* the answer of voiceforge_benchmark once both filters are resolved
BenchmarkAnswer(unsorted, resolvedLanguage, resolvedProvider, sort_by) ==
  IF Len(unsorted) = 0
  THEN [status |-> "ok", language |-> resolvedLanguage, provider |-> resolvedProvider,
        sort_by |-> sort_by, rows |-> <<>>, count |-> 0]
  ELSE With(SortRows(unsorted, sort_by),
            LAMBDA results :
              [status |-> "ok", language |-> resolvedLanguage, provider |-> resolvedProvider,
               sort_by |-> sort_by, count |-> Len(results), rows |-> results,
               summary |-> [fastest |-> SortRows(results, "latency")[1],
                            best_quality |-> SortRows(results, "quality")[1],
                            cheapest |-> SortRows(results, "cost")[1]]])

\* the handler after its two resolutions; an argument left out is nullStr,
\* and so is the null of an unresolved or absent filter
BenchmarkResolved(language, resolvedLanguage, provider, resolvedProvider, sort_by) ==
  IF Truthy(language) /\ resolvedLanguage = nullStr
  THEN [status |-> "error", reason |-> "unsupported-language",
        requested_language |-> language, suggestions |-> getLanguageSuggestions(language)]
  ELSE IF Truthy(provider) /\ resolvedProvider = nullStr
  THEN [status |-> "error", reason |-> "unsupported-provider",
        requested_provider |-> provider, supported_providers |-> listKnownProviders(nullStr)]
  ELSE BenchmarkAnswer(FilteredRows(language, resolvedLanguage, provider, resolvedProvider),
                       resolvedLanguage, resolvedProvider, sort_by)

voiceforge_benchmark(language, provider, sort_by) ==
  BenchmarkResolved(language, IF Truthy(language) THEN resolveLanguage(language) ELSE nullStr,
                    provider, IF Truthy(provider) THEN resolveProvider(provider) ELSE nullStr,
                    sort_by)

\* Which array a name of a handler stands for: "BENCHMARK_DATA", the catalog
\* itself, or "new", an array the handler made.  Array.prototype.sort sorts
\* the array it is called on.

\* results = BENCHMARK_DATA: the same array under another name
spread_SameArray(array) == array

\* [...array]: a new array with the same rows
spread(array) == "new"

\* the array results stands for at the sort of voiceforge_benchmark: filter
\* returns a new array
ResultsArray(language, provider) ==
  With(spread("BENCHMARK_DATA"),
       LAMBDA results : IF Truthy(language) \/ Truthy(provider) THEN "new" ELSE results)

\* the catalog after voiceforge_benchmark: results.sort(...) is reached
\* with rows to sort, and sorts results
CatalogAfterBenchmark(language, provider, sort_by, answer) ==
  IF answer.status = "ok" /\ answer.count > 0
       /\ ResultsArray(language, provider) = "BENCHMARK_DATA"
  THEN answer.rows
  ELSE BENCHMARK_DATA

\* the catalog after voiceforge_health: all = [...BENCHMARK_DATA], and the
\* three sorts are called on [...all]; the last one is by cost
CatalogAfterHealth ==
  IF spread(spread("BENCHMARK_DATA")) = "BENCHMARK_DATA"
  THEN SortRows(BENCHMARK_DATA, "cost")
  ELSE BENCHMARK_DATA

FRAMEWORK_COMPATIBILITY ==
  [livekit |-> [stt |-> {"Deepgram", "OpenAI", "Google"},
                llm |-> {"OpenAI", "Anthropic", "Google"},
                tts |-> {"Cartesia", "ElevenLabs"}],
   nextjs  |-> [stt |-> {}, llm |-> {}, tts |-> {"ElevenLabs"}]]

\* a predicate that takes an empty allow-set to admit no provider
isScaffoldCompatible_EmptyAdmitsNone(entry, framework) ==
  /\ entry.stt \in FRAMEWORK_COMPATIBILITY[framework].stt
  /\ entry.llm \in FRAMEWORK_COMPATIBILITY[framework].llm
  /\ entry.tts \in FRAMEWORK_COMPATIBILITY[framework].tts

isScaffoldCompatible(entry, framework) ==
  With(FRAMEWORK_COMPATIBILITY[framework],
       LAMBDA policy :
         /\ (Cardinality(policy.stt) = 0 \/ entry.stt \in policy.stt)
         /\ (Cardinality(policy.llm) = 0 \/ entry.llm \in policy.llm)
         /\ entry.tts \in policy.tts)

\* the six names of a row joined with spaces, as isSameStack compares them
StackText(e) ==
  Join(<<e.stt, e.sttModel, e.llm, e.llmModel, e.tts, e.ttsModel>>, " ")

\* Math.abs(topPick.score - best.score), in tenths
scoreDelta(topPick, best) ==
  IF NaN \in {topPick.score, best.score} THEN NaN ELSE Abs(topPick.score - best.score)

\* scoreDelta > 2: no comparison with NaN holds
DeltaAboveTwo(delta) == delta # NaN /\ delta > 20

\* the notice (its text up to the framework) or the empty string
fallbackNotice(topPick, best, framework) ==
  IF StackText(topPick) # StackText(best) /\ DeltaAboveTwo(scoreDelta(topPick, best))
  THEN "Note: Top-scoring stack is not scaffoldable with " \o framework
  ELSE ""

\* the template generator answers with files or throws; generated is its
\* outcome: [throws |-> FALSE, files |-> ...] or [throws |-> TRUE, message |-> ...]
ScaffoldFiles(best, topPick, framework, resolvedLanguage, resolvedUseCase, name, output_dir, generated) ==
  IF generated.throws
  THEN [status |-> "error", reason |-> "template-generation-failed", error |-> generated.message]
  ELSE [status |-> "ok", agent_name |-> name, framework |-> framework,
        language |-> resolvedLanguage, use_case |-> resolvedUseCase,
        stack |-> [stt |-> best.stt, stt_model |-> best.sttModel,
                   llm |-> best.llm, llm_model |-> best.llmModel,
                   tts |-> best.tts, tts_model |-> best.ttsModel],
        file_count |-> Len(generated.files), files |-> generated.files,
        output_dir |-> IF Truthy(output_dir) THEN output_dir ELSE "./" \o name,
        fallback_notice |->
          With(fallbackNotice(topPick, best, framework),
               LAMBDA notice : IF notice # "" THEN notice ELSE nullStr),
        expected |-> [latency_ms |-> best.latencyMs, quality |-> best.quality,
                      cost_per_min |-> best.costPerMin]]

\* safeAgentName || `${Date.now()}-voiceforge-agent`; now is the clock's text
AgentName(agent_name, resolvedLanguage, resolvedUseCase, now) ==
  With(toSafeSlug(IF Truthy(agent_name) THEN agent_name
                  ELSE toLowerCase(resolvedLanguage) \o "-" \o resolvedUseCase \o "-agent"),
       LAMBDA safeAgentName :
         IF safeAgentName # "" THEN safeAgentName ELSE now \o "-voiceforge-agent")

\* the handler once the language has rows
ScaffoldRanked(ranked, framework, resolvedLanguage, resolvedUseCase, agent_name, output_dir, now, generated) ==
  With(SelectSeq(ranked, LAMBDA entry : isScaffoldCompatible(entry, framework)),
       LAMBDA scaffoldable :
         IF Len(scaffoldable) = 0
         THEN [status |-> "error", reason |-> "no-scaffold-compatible-stack",
               framework |-> framework, language |-> resolvedLanguage,
               supported_frameworks |->
                 [livekit_stt |-> FRAMEWORK_COMPATIBILITY.livekit.stt,
                  livekit_llm |-> FRAMEWORK_COMPATIBILITY.livekit.llm,
                  livekit_tts |-> FRAMEWORK_COMPATIBILITY.livekit.tts,
                  nextjs_tts |-> FRAMEWORK_COMPATIBILITY.nextjs.tts]]
         ELSE ScaffoldFiles(scaffoldable[1], ranked[1], framework, resolvedLanguage,
                            resolvedUseCase,
                            AgentName(agent_name, resolvedLanguage, resolvedUseCase, now),
                            output_dir, generated))

\* the handler after its two resolutions
ScaffoldResolved(language, resolvedLanguage, resolvedUseCase, framework, agent_name, output_dir, now, generated) ==
  IF resolvedLanguage = nullStr
  THEN [status |-> "error", reason |-> "unsupported-language",
        requested_language |-> language, suggestions |-> getLanguageSuggestions(language)]
  ELSE With(RowsOfLanguage(BENCHMARK_DATA, resolvedLanguage),
            LAMBDA matching :
              IF Len(matching) = 0
              THEN [status |-> "fallback", reason |-> "no-language-benchmarks",
                    language |-> language,
                    stack |-> [stt |-> "Deepgram", stt_model |-> "nova-3",
                               llm |-> "OpenAI", llm_model |-> "gpt-4.1-mini",
                               tts |-> "Cartesia", tts_model |-> "sonic-3"]]
              ELSE ScaffoldRanked(rankBenchmarks(matching, getUseCaseWeights(resolvedUseCase)),
                                  framework, resolvedLanguage, resolvedUseCase, agent_name,
                                  output_dir, now, generated))

voiceforge_scaffold(language, use_case, framework, agent_name, output_dir, now, generated) ==
  ScaffoldResolved(language, resolveLanguage(language), resolveUseCase(use_case), framework,
                   agent_name, output_dir, now, generated)

\* categoryMap[resolved]?.models ?? []
ModelsOf(category, resolved) ==
  With({i \in 1..Len(PROVIDER_INFO[category]) : PROVIDER_INFO[category][i].provider = resolved},
       LAMBDA own : IF own = {} THEN <<>> ELSE PROVIDER_INFO[category][MinOf(own)].models)

getProviderModels(provider, category) ==
  With(resolveProvider(provider),
       LAMBDA resolved : IF resolved = nullStr THEN <<>> ELSE ModelsOf(category, resolved))

isModelKnown(provider, category, model) ==
  With(getProviderModels(provider, category),
       LAMBDA supported : \E i \in 1..Len(supported) : modelMatches(supported[i], model))

resolveProviderCategory(provider, category) ==
  With(resolveProvider(provider),
       LAMBDA resolved :
         IF resolved = nullStr THEN nullStr
         ELSE IF \E i \in 1..Len(PROVIDER_INFO[category]) :
                   PROVIDER_INFO[category][i].provider = resolved
              THEN resolved
              ELSE nullStr)

\* modelWarnings[category]
modelWarning(provider, category, model) ==
  Len(getProviderModels(provider, category)) > 0 /\ ~isModelKnown(provider, category, model)

\* the categories whose warning is set, in the order stt, llm, tts
unknownModelsOf(c) ==
  SelectSeq(<<"stt", "llm", "tts">>,
            LAMBDA key :
              \/ key = "stt" /\ modelWarning(c.stt_provider, "stt", c.stt_model)
              \/ key = "llm" /\ modelWarning(c.llm_provider, "llm", c.llm_model)
              \/ key = "tts" /\ modelWarning(c.tts_provider, "tts", c.tts_model))

\* the rows equal to the requested stack: providers by makeProviderMatch,
\* models by their lower-case text
ValidateMatches(c) ==
  SelectSeq(BENCHMARK_DATA,
            LAMBDA entry :
              /\ makeProviderMatch(c.stt_provider, entry.stt)
              /\ toLowerCase(entry.sttModel) = c.stt_model
              /\ makeProviderMatch(c.llm_provider, entry.llm)
              /\ toLowerCase(entry.llmModel) = c.llm_model
              /\ makeProviderMatch(c.tts_provider, entry.tts)
              /\ toLowerCase(entry.ttsModel) = c.tts_model)

\* the providers the catalog uses in a category that resolve to the requested one
providerHint(names, category, provider) ==
  SelectSeq(Dedup(names),
            LAMBDA entryProvider : resolveProviderCategory(entryProvider, category) = provider)

\* the answer for a stack that some rows equal
ValidateMatched(c, matches, top, unknownModels) ==
  [status |-> "ok",
   matched_benchmark |-> [stt |-> top.stt, stt_model |-> top.sttModel,
                          llm |-> top.llm, llm_model |-> top.llmModel,
                          tts |-> top.tts, tts_model |-> top.ttsModel,
                          latency_ms |-> top.latencyMs, quality |-> top.quality,
                          cost_per_min |-> top.costPerMin],
   benchmark_matches |-> Len(matches),
   framework_support |-> [livekit |-> isScaffoldCompatible(top, "livekit"),
                          nextjs |-> isScaffoldCompatible(top, "nextjs")],
   requested_stack |-> c,
   model_warnings |-> unknownModels]

\* the handler after the model check
ValidateAgainstCatalog(c, matches, unknownModels) ==
  IF Len(matches) = 0
  THEN [status |-> "error", reason |-> "no-exact-match", requested_stack |-> c,
        provider_combos |->
          [stt |-> providerHint([i \in 1..Len(BENCHMARK_DATA) |-> BENCHMARK_DATA[i].stt],
                                "stt", c.stt_provider),
           llm |-> providerHint([i \in 1..Len(BENCHMARK_DATA) |-> BENCHMARK_DATA[i].llm],
                                "llm", c.llm_provider),
           tts |-> providerHint([i \in 1..Len(BENCHMARK_DATA) |-> BENCHMARK_DATA[i].tts],
                                "tts", c.tts_provider)],
        model_warnings |-> unknownModels]
  ELSE ValidateMatched(c, matches,
                       rankBenchmarks(matches, getUseCaseWeights("customer-support"))[1],
                       unknownModels)

\* the handler once the three providers are resolved; c is normalizedCombo
ValidateCombo(c, unknownModels, output_format) ==
  IF Len(unknownModels) > 0 /\ output_format = "json"
  THEN [status |-> "warning", reason |-> "unsupported-model",
        unknown_models |-> unknownModels,
        requested_models |-> [stt |-> c.stt_model, llm |-> c.llm_model, tts |-> c.tts_model],
        supported_models |-> [stt |-> getProviderModels(c.stt_provider, "stt"),
                              llm |-> getProviderModels(c.llm_provider, "llm"),
                              tts |-> getProviderModels(c.tts_provider, "tts")]]
  ELSE ValidateAgainstCatalog(c, ValidateMatches(c), unknownModels)

ValidateResolved(resolvedProviders, stt_model, llm_model, tts_model, output_format) ==
  IF nullStr \in {resolvedProviders.stt, resolvedProviders.llm, resolvedProviders.tts}
  THEN [status |-> "error", reason |-> "unresolved-provider",
        expected_providers |-> [stt |-> listKnownProviders("stt"),
                                llm |-> listKnownProviders("llm"),
                                tts |-> listKnownProviders("tts")]]
  ELSE With([stt_provider |-> resolvedProviders.stt,
             stt_model |-> toLowerCase(trim(stt_model)),
             llm_provider |-> resolvedProviders.llm,
             llm_model |-> toLowerCase(trim(llm_model)),
             tts_provider |-> resolvedProviders.tts,
             tts_model |-> toLowerCase(trim(tts_model))],
            LAMBDA normalizedCombo :
              ValidateCombo(normalizedCombo, unknownModelsOf(normalizedCombo), output_format))

\* the payload handed to formatToolResponse; framework only adds lines to
\* the markdown text
voiceforge_validate(stt_provider, stt_model, llm_provider, llm_model, tts_provider, tts_model, framework, output_format) ==
  ValidateResolved([stt |-> resolveProvider(stt_provider),
                    llm |-> resolveProvider(llm_provider),
                    tts |-> resolveProvider(tts_provider)],
                   stt_model, llm_model, tts_model, output_format)

DATA_SOURCE_UPDATED_AT == "2026-02-15T00:00:00Z"

\* coverage_by_language: the rows of each supported language, names compared
\* by normalizeTerm
byLanguage(all) ==
  [i \in 1..Len(SUPPORTED_LANGUAGES) |->
     [language |-> SUPPORTED_LANGUAGES[i],
      count |-> Len(SelectSeq(all,
                    LAMBDA entry : \E entryLanguage \in Range(entry.languages) :
                      normalizeTerm(entryLanguage) = normalizeTerm(SUPPORTED_LANGUAGES[i])))]]

\* the health payload over all, a copy of the catalog; now is
\* new Date().toISOString()
HealthPayload(all, verbose, now) ==
  [status |-> "ok",
   timestamp |-> now,
   total_benchmarks |-> Len(all),
   data_snapshot |-> DATA_SOURCE_UPDATED_AT,
   supported_use_cases |-> Len(USE_CASE_PRIORITIES),
   supported_languages |-> Len(SUPPORTED_LANGUAGES),
   livekit_scaffoldable_rows |->
     Len(SelectSeq(all, LAMBDA entry : isScaffoldCompatible(entry, "livekit"))),
   nextjs_scaffoldable_rows |->
     Len(SelectSeq(all, LAMBDA entry : isScaffoldCompatible(entry, "nextjs"))),
   fastest |-> SortRows(all, "latency")[1],
   highest_quality |-> SortRows(all, "quality")[1],
   cheapest |-> SortRows(all, "cost")[1],
   coverage_by_language |-> byLanguage(all),
   verbose |-> verbose]

\* payload is the object handed to formatToolResponse, response its result
Responded(output_format, payload) ==
  [payload |-> payload, response |-> formatToolResponse(output_format, payload)]

voiceforge_health(verbose, output_format, now) ==
  Responded(output_format, HealthPayload(BENCHMARK_DATA, verbose, now))

\* payloadProviders[cat]; url and strengths are texts no operation reads
renderCategory(cat) ==
  [i \in 1..Len(PROVIDER_INFO[cat]) |->
     [provider |-> PROVIDER_INFO[cat][i].provider, models |-> PROVIDER_INFO[cat][i].models]]

\* payloadProviders: the categories rendered for the requested one
payloadProviders(category) ==
  [cat \in (IF category = "all" THEN {"stt", "llm", "tts"} ELSE {category}) |->
     renderCategory(cat)]

ProvidersPayload(category, output_format) ==
  [status |-> "ok",
   category |-> category,
   providers |-> IF output_format = "json" /\ category # "all"
                 THEN payloadProviders(category)[category]
                 ELSE payloadProviders(category),
   total |-> [stt |-> Len(PROVIDER_INFO.stt), llm |-> Len(PROVIDER_INFO.llm),
              tts |-> Len(PROVIDER_INFO.tts)]]

voiceforge_providers(category, output_format) ==
  Responded(output_format, ProvidersPayload(category, output_format))

\* the values the YAML text is built from; now is new Date().toISOString()
ConfigYaml(agent_name, resolvedLanguage, resolvedUseCase, p, stt_model, llm_model, tts_model, now) ==
  [generated |-> now,
   agent |-> [name |-> agent_name, language |-> resolvedLanguage, use_case |-> resolvedUseCase],
   stt |-> [provider |-> toLowerCase(p.stt), model |-> stt_model,
            language |-> SliceTo(toLowerCase(resolvedLanguage), 2)],
   llm |-> [provider |-> toLowerCase(p.llm), model |-> llm_model],
   tts |-> [provider |-> toLowerCase(p.tts), model |-> tts_model]]

\* the payload of voiceforge_config once language and providers resolved
ConfigPayload(agent_name, resolvedLanguage, resolvedUseCase, p, stt_model, llm_model, tts_model, modelWarnings, now) ==
  [status |-> IF modelWarnings.stt \/ modelWarnings.llm \/ modelWarnings.tts
              THEN "warning" ELSE "ok",
   config |-> [agent_name |-> agent_name, use_case |-> resolvedUseCase,
               stt_provider |-> p.stt, stt_model |-> stt_model,
               llm_provider |-> p.llm, llm_model |-> llm_model,
               tts_provider |-> p.tts, tts_model |-> tts_model,
               language |-> resolvedLanguage],
   supported_models |-> [stt |-> getProviderModels(p.stt, "stt"),
                         llm |-> getProviderModels(p.llm, "llm"),
                         tts |-> getProviderModels(p.tts, "tts")],
   unknown_models |-> modelWarnings,
   yaml |-> ConfigYaml(agent_name, resolvedLanguage, resolvedUseCase, p, stt_model, llm_model,
                       tts_model, now)]

\* the handler after its resolutions; p is resolvedProviders
ConfigResolved(agent_name, language, resolvedLanguage, resolvedUseCase, p, stt_model, llm_model, tts_model, now) ==
  IF resolvedLanguage = nullStr
  THEN [status |-> "error", reason |-> "unsupported-language",
        requested_language |-> language, suggestions |-> getLanguageSuggestions(language)]
  ELSE IF nullStr \in {p.stt, p.llm, p.tts}
  THEN [status |-> "error", reason |-> "unresolved-provider", providers |-> p]
  ELSE ConfigPayload(agent_name, resolvedLanguage, resolvedUseCase, p, stt_model, llm_model,
                     tts_model,
                     [stt |-> modelWarning(p.stt, "stt", stt_model),
                      llm |-> modelWarning(p.llm, "llm", llm_model),
                      tts |-> modelWarning(p.tts, "tts", tts_model)],
                     now)

voiceforge_config(agent_name, stt_provider, stt_model, llm_provider, llm_model, tts_provider, tts_model, language, use_case, output_format, now) ==
  Responded(output_format,
            ConfigResolved(agent_name, language, resolveLanguage(language),
                           resolveUseCase(use_case),
                           [stt |-> resolveProvider(stt_provider),
                            llm |-> resolveProvider(llm_provider),
                            tts |-> resolveProvider(tts_provider)],
                           stt_model, llm_model, tts_model, now))

\* the sides whose combo did not parse
missing(resolvedA, resolvedB) ==
  (IF resolvedA = null THEN <<"A">> ELSE <<>>) \o (IF resolvedB = null THEN <<"B">> ELSE <<>>)

\* a report of the sides without rows that is given only when both have none
noMatch_BothEmpty(resolvedA, resolvedB) ==
  IF Len(resolvedA.entries) = 0 /\ Len(resolvedB.entries) = 0 THEN <<"A", "B">> ELSE <<>>

\* the sides whose parsed combo matches no row
noMatch(resolvedA, resolvedB) ==
  (IF Len(resolvedA.entries) = 0 THEN <<"A">> ELSE <<>>)
    \o (IF Len(resolvedB.entries) = 0 THEN <<"B">> ELSE <<>>)

\* a selection that takes the first matching row of the catalog
CompareSide_FirstMatch(entries) ==
  [row |-> IF Len(entries) = 0 THEN null
           ELSE WithScore(entries[1], scoreBenchmark(entries[1], DEFAULT_WEIGHTS)),
   ambiguity |-> Len(entries) > 1]

\* one side of the comparison: rankedA[0] (null for undefined) and ambiguityA
CompareSide(entries) ==
  With(rankBenchmarks(entries, DEFAULT_WEIGHTS),
       LAMBDA ranked : [row |-> IF Len(ranked) = 0 THEN null ELSE ranked[1],
                        ambiguity |-> Len(entries) > 1])

\* winners that a tie gives to the second operand
winners_TiesToB(a, b) ==
  [latency |-> IF a.latencyMs < b.latencyMs THEN "A" ELSE "B",
   quality |-> IF a.quality > b.quality THEN "A" ELSE "B",
   cost    |-> IF a.costPerMin < b.costPerMin THEN "A" ELSE "B"]

\* the winners object of the payload (the markdown computes the same three)
winners(a, b) ==
  [latency |-> IF a.latencyMs <= b.latencyMs THEN "A" ELSE "B",
   quality |-> IF a.quality >= b.quality THEN "A" ELSE "B",
   cost    |-> IF a.costPerMin <= b.costPerMin THEN "A" ELSE "B"]

\* the answer for two selected rows; stacks holds the rows the markdown prints
CompareRows(a, b, resolvedA, resolvedB, ambiguityA, ambiguityB) ==
  [status |-> "ok",
   stacks |-> [a |-> a, b |-> b],
   winners |-> winners(a, b),
   deltas |-> [latencyMs |-> Abs(a.latencyMs - b.latencyMs),
               quality |-> Abs(a.quality - b.quality),
               costPerMin |-> Abs(a.costPerMin - b.costPerMin)],
   overlap_languages |->
     [both   |-> SelectSeq(a.languages, LAMBDA l : l \in Range(b.languages)),
      only_a |-> SelectSeq(a.languages, LAMBDA l : l \notin Range(b.languages)),
      only_b |-> SelectSeq(b.languages, LAMBDA l : l \notin Range(a.languages))],
   requested |-> [a |-> describeParsedCombo(resolvedA.parsed),
                  b |-> describeParsedCombo(resolvedB.parsed)],
   candidate_counts |-> [a |-> Len(resolvedA.entries), b |-> Len(resolvedB.entries)],
   ambiguity |-> [a |-> ambiguityA, b |-> ambiguityB]]

\* the handler once both combos are parsed and both have rows
CompareMatched(resolvedA, resolvedB) ==
  With(<<CompareSide(resolvedA.entries), CompareSide(resolvedB.entries)>>,
       LAMBDA sides :
         IF sides[1].row = null \/ sides[2].row = null
         THEN [status |-> "error", reason |-> "unresolved-combo",
               combo_a |-> describeParsedCombo(resolvedA.parsed),
               combo_b |-> describeParsedCombo(resolvedB.parsed),
               counts |-> [a |-> Len(resolvedA.entries), b |-> Len(resolvedB.entries)]]
         ELSE CompareRows(sides[1].row, sides[2].row, resolvedA, resolvedB,
                          sides[1].ambiguity, sides[2].ambiguity))

\* the handler after its two calls of parseComboMatches
CompareResolved(combo_a, combo_b, resolvedA, resolvedB) ==
  IF resolvedA = null \/ resolvedB = null
  THEN [status |-> "error", reason |-> "unparseable-combo",
        missing |-> missing(resolvedA, resolvedB),
        combo_a |-> combo_a, combo_b |-> combo_b,
        supported_providers |-> listKnownProviders(nullStr)]
  ELSE IF Len(noMatch(resolvedA, resolvedB)) > 0
  THEN [status |-> "error", reason |-> "no-matching-combo",
        combo_a |-> describeParsedCombo(resolvedA.parsed),
        combo_b |-> describeParsedCombo(resolvedB.parsed),
        matches_found |-> [a |-> Len(resolvedA.entries), b |-> Len(resolvedB.entries)]]
  ELSE CompareMatched(resolvedA, resolvedB)

voiceforge_compare(combo_a, combo_b) ==
  CompareResolved(combo_a, combo_b, parseComboMatches(combo_a), parseComboMatches(combo_b))

-----------------------------------------------------------------------------
(* Inputs                                                                  *)

\* every spelling of a provider the alias table knows, as written there
ProviderSpellings ==
  UNION {{PROVIDER_ALIASES[i].provider} \cup Range(PROVIDER_ALIASES[i].aliases) :
           i \in 1..Len(PROVIDER_ALIASES)}

\* text typed after (or glued to) a provider spelling
ProviderSuffixes ==
  {" nova-3", " AI universal-3-pro", " 4 maverick", " labs turbo_v2.5", "x", " a", "-4"}

ProviderInputs ==
  {SliceTo(s, k) : s \in ProviderSpellings, k \in 0..13}
    \cup {s \o t : s \in ProviderSpellings, t \in ProviderSuffixes}
    \cup {"NopeAI", "!!!", "Open-AI GPT-4.1-mini", "  Deep   Gram  ", "LLAMA_4.maverick"}

\* the most segments a combo input is given
MaxSegments == 4

SegmentPool ==
  {"Deepgram nova-3", "open ai", "OpenAI gpt-4.999", "Cartesia Sonic 3", "NopeAI", ""}

SeparatorStyles == {<<" + ">>, <<"->", ",", " + ">>}

RECURSIVE JoinStyled(_, _, _)
JoinStyled(segs, style, n) ==
  IF Len(segs) = 0 THEN ""
  ELSE IF Len(segs) = 1 THEN segs[1]
  ELSE segs[1] \o style[((n - 1) % Len(style)) + 1] \o JoinStyled(Tail(segs), style, n + 1)

ComboInputs ==
  {JoinStyled(segs, style, 1) :
     segs \in UNION {[1..n -> SegmentPool] : n \in 0..MaxSegments},
     style \in SeparatorStyles}

\* segments of the combos that are described and parsed again: aliases with
\* and without a model, a model cut from the normalized text, and an alias
\* ("rime ai") that begins with a canonical name
DescribedSegments ==
  {"Deepgram nova-3", "open-ai GPT-4.1-mini", "llama 4 maverick", "llama-4 maverick",
   "Rime ai", "rime x ai", "eleven labs turbo_v2.5", "claude ai", "NopeAI"}

\* segments handed to parseProviderWithModel: the described ones, aliases
\* typed with a hyphen or a dot before a model of one and of two words, a
\* model alone, blanks around the text
ProviderModelInputs ==
  DescribedSegments \cup
    {"open-ai gpt-4.1-mini extra", "open ai gpt-4.1-mini extra", "eleven-labs turbo_v2.5 fast",
     "Eleven.Labs", " Deepgram  Nova-3 ", "Cartesia Sonic 3", "nova-3", ""}

\* n copies of a text
RECURSIVE Repeat(_, _)
Repeat(text, n) ==
  IF n = 0 THEN ""
  ELSE IF n = 1 THEN text
  ELSE Repeat(text, n \div 2) \o Repeat(text, n - n \div 2)

\* texts handed to toSafeSlug: names with blanks and punctuation, hyphens
\* at the ends, nothing to keep, and long names whose slug has a letter or
\* a hyphen as its 80th character
SlugInputs ==
  {"My  Thai_Agent!", "--Thai--agent--", " - x - ", "!!!", "", "thai-customer-support-agent",
   Repeat("a", 85), Repeat("a", 80), Repeat("a", 79) \o " b", Repeat("a", 78) \o "._.b",
   Repeat("ab-", 30), "-" \o Repeat("a", 79) \o "-b"}

DescribedInputs ==
  {JoinStyled(segs, style, 1) : segs \in [1..3 -> DescribedSegments], style \in SeparatorStyles}

\* languages given to the tools: names, aliases and prefixes of languages
\* with rows, the two supported languages without rows, unresolvable text
ToolLanguages == {"Thai", "en", "kore", "zh-yue", "Mandarin", "malay", "Nigerian", "!!"}

\* use cases given to the tools: an alias, an alias that is also a prefix of
\* an earlier entry's alias, text that resolves to none, and a property name
\* every object inherits
ToolUseCases == {"customer support", "appointment", "outbound surveys", "constructor"}

\* max_results in halves: below 1, fractions, the default 5, around the cap
MaxResultsInputs == {-3, 0, 1, 2, 3, 5, 10, 19, 20, 21, 24}

\* provider filters: none, the empty text, names and aliases of providers
\* of each category, unresolvable and too short text
ToolProviders == {nullStr, "", "Deepgram", "eleven labs", "gpt", "Rime", "NopeAI", "xy"}

BenchmarkSorts == {"latency", "quality", "cost"}

\* combos given to voiceforge_compare: rows named with models, by alias and
\* by provider only; rows that tie on quality (1 and 3) and on cost (4, 6
\* and 7); a model no row has; a trio no row has; two combos that do not parse
CompareCombos ==
  {"Deepgram nova-3 + OpenAI gpt-4.1-mini + Cartesia sonic-3",
   "deepgram nova-3 + open ai gpt-4.1-mini + cartesia sonic-3",
   "AssemblyAI universal-3-pro + OpenAI gpt-4.1-mini + Cartesia sonic-3",
   "Deepgram + OpenAI + ElevenLabs",
   "Speechmatics, OpenAI, Rime",
   "Deepgram -> Google -> PlayHT",
   "Deepgram nova-3 + OpenAI gpt-4.999 + Cartesia sonic-3",
   "Rime + OpenAI + Deepgram",
   "Deepgram + NopeAI + Cartesia",
   "Deepgram + OpenAI"}

Frameworks == {"livekit", "nextjs"}

\* the stacks handed to voiceforge_validate: providers that resolve with and
\* without a model list in the category, one that does not resolve; models
\* as listed, in another spelling, in another case, and unknown ones
ValidateSttProviders == {"Deepgram", "Cartesia", "NopeAI"}

ValidateSttModels == {"nova-3", "nova 3", " Nova-3", "sonic-3"}

ValidateLlmProviders == {"open ai"}

ValidateLlmModels == {"gpt-4.1-mini", "GPT-4.1", "gpt-not-a-real-model"}

ValidateTtsProviders == {"Cartesia", "eleven labs"}

ValidateTtsModels == {"sonic-3", "eleven v3", "sonic-9"}

ValidateFrameworks == {"all", "livekit", "nextjs"}

OutputFormats == {"markdown", "json"}

\* agent_name: left out, a name to slug, a name whose slug is empty
AgentNames == {nullStr, "My  Thai_Agent!", "!!!"}

\* output_dir: left out or given
OutputDirs == {nullStr, "./out"}

\* Date.now() as text
Clock == {"1767225600000", "1767225600001"}

\* new Date().toISOString() at two moments
ClockISO == {"2026-01-01T00:00:00.000Z", "2026-01-01T00:00:00.001Z"}

ProviderCategories == {"all", "stt", "llm", "tts"}

\* the stacks handed to voiceforge_config
ConfigAgentNames == {"demo agent"}

ConfigSttProviders == {"Deepgram", "NopeAI"}

ConfigSttModels == {"nova-3", "nova-9"}

ConfigLanguages == {"Thai", "Nigerian"}

\* what the template generator of ./data/templates.js does with a config:
\* it returns a list of (path, content) pairs, held by their paths, or throws
TemplateOutcomes ==
  {[throws |-> FALSE, files |-> <<"agent", "env", "README.md">>],
   [throws |-> TRUE, message |-> "unknown error"]}

\* every spelling of a use case: the canonical keys and the aliases
UseCaseSpellings ==
  UNION {{USE_CASE_ALIASES[i].useCase} \cup Range(USE_CASE_ALIASES[i].aliases) :
           i \in 1..Len(USE_CASE_ALIASES)}

UseCaseInputs ==
  {SliceTo(s, k) : s \in UseCaseSpellings, k \in 0..21}
    \cup {s \o t : s \in UseCaseSpellings, t \in {"s", " team", "_X"}}
    \cup {"constructor", "Customer_Support", "outbound surveys"}

\* every spelling of a language: the supported names, the alias keys and the aliases
LanguageSpellings ==
  Range(SUPPORTED_LANGUAGES)
    \cup UNION {{LANGUAGE_ALIASES[i].lang} \cup Range(LANGUAGE_ALIASES[i].aliases) :
                  i \in 1..Len(LANGUAGE_ALIASES)}

LanguageInputs ==
  {SliceTo(s, k) : s \in LanguageSpellings, k \in 0..13}
    \cup {s \o t : s \in LanguageSpellings, t \in {"x", " (native)", "-US"}}
    \cup {"Nigerian", "ZH_CN", " EN ", "!!"}

Objectives == {"balanced", "latency", "quality", "cost"}

\* the weights the engine ranks with: every objective, for every canonical
\* use case and for a use case that resolves to none
EngineWeights ==
  {getObjectiveWeights(o, u) : o \in Objectives, u \in UseCaseKeys \cup {"outbound surveys"}}

\* rows beyond the catalog: the first row at other latencies, two of them
\* past the latency (300 ms) at which the latency sub-score reaches 0
SyntheticRows ==
  {[BenchmarkRows[1] EXCEPT !.latencyMs = l] : l \in {320, 400}}

\* the rows offered to the ranking: catalog rows that tie on score (9 and 10,
\* 6 and 12), that agree on quality and cost (8 and 12), and the synthetic rows
RankPool == {BENCHMARK_DATA[i] : i \in {1, 6, 8, 9, 10, 12}} \cup SyntheticRows

\* the longest list of rows given to rankBenchmarks
MaxRankLen == 3

RankInputs == UNION {[1..n -> RankPool] : n \in 0..MaxRankLen}

-----------------------------------------------------------------------------
(* The server: it waits for a call, runs it to completion and answers.     *)

Init ==
  /\ BENCHMARK_DATA = BenchmarkRows
  /\ pc = "idle"
  /\ call = [op |-> "none"]
  /\ result = null

ResolveProviderMatch ==
  /\ pc = "idle"
  /\ \E input \in ProviderInputs :
       /\ call' = [op |-> "resolveProviderMatch", input |-> input]
       /\ result' = resolveProviderMatch(input)
  /\ pc' = "done"
  /\ UNCHANGED BENCHMARK_DATA

ToSafeSlug ==
  /\ pc = "idle"
  /\ \E value \in SlugInputs :
       /\ call' = [op |-> "toSafeSlug", value |-> value]
       /\ result' = toSafeSlug(value)
  /\ pc' = "done"
  /\ UNCHANGED BENCHMARK_DATA

ParseProviderWithModel ==
  /\ pc = "idle"
  /\ \E input \in ProviderModelInputs :
       /\ call' = [op |-> "parseProviderWithModel", input |-> input]
       /\ result' = parseProviderWithModel(input)
  /\ pc' = "done"
  /\ UNCHANGED BENCHMARK_DATA

ParseComboInput ==
  /\ pc = "idle"
  /\ \E desc \in ComboInputs :
       /\ call' = [op |-> "parseComboInput", input |-> desc]
       /\ result' = parseComboInput(desc)
  /\ pc' = "done"
  /\ UNCHANGED BENCHMARK_DATA

ParseComboMatches ==
  /\ pc = "idle"
  /\ \E combo \in ComboInputs :
       /\ call' = [op |-> "parseComboMatches", input |-> combo]
       /\ result' = parseComboMatches(combo)
  /\ pc' = "done"
  /\ UNCHANGED BENCHMARK_DATA

\* a combo the parser accepts is described and the description parsed again
DescribeParsedCombo ==
  /\ pc = "idle"
  /\ \E desc \in DescribedInputs :
       \E combo \in {parseComboInput(desc)} :
         /\ combo # null
         /\ call' = [op |-> "describeParsedCombo", input |-> desc, combo |-> combo]
         /\ \E described \in {describeParsedCombo(combo)} :
              result' = [described |-> described, parsed |-> parseComboInput(described)]
  /\ pc' = "done"
  /\ UNCHANGED BENCHMARK_DATA

Recommend ==
  /\ pc = "idle"
  /\ \E language \in ToolLanguages, use_case \in ToolUseCases,
        optimize_for \in Objectives, max_results \in MaxResultsInputs,
        output_format \in OutputFormats :
       /\ call' = [op |-> "voiceforge_recommend", language |-> language, use_case |-> use_case,
                   optimize_for |-> optimize_for, max_results |-> max_results,
                   output_format |-> output_format]
       /\ result' = voiceforge_recommend(language, use_case, optimize_for, max_results,
                                         output_format)
  /\ pc' = "done"
  /\ UNCHANGED BENCHMARK_DATA

Benchmark ==
  /\ pc = "idle"
  /\ \E language \in ToolLanguages \cup {nullStr, ""}, provider \in ToolProviders,
        sort_by \in BenchmarkSorts :
       /\ call' = [op |-> "voiceforge_benchmark", language |-> language,
                   provider |-> provider, sort_by |-> sort_by]
       /\ result' = voiceforge_benchmark(language, provider, sort_by)
       /\ BENCHMARK_DATA' = CatalogAfterBenchmark(language, provider, sort_by, result')
  /\ pc' = "done"

Compare ==
  /\ pc = "idle"
  /\ \E combo_a \in CompareCombos, combo_b \in CompareCombos :
       /\ call' = [op |-> "voiceforge_compare", combo_a |-> combo_a, combo_b |-> combo_b]
       /\ result' = voiceforge_compare(combo_a, combo_b)
  /\ pc' = "done"
  /\ UNCHANGED BENCHMARK_DATA

\* the selection of voiceforge_compare for one side, on a list of matching
\* rows of any length
SelectCompareSide ==
  /\ pc = "idle"
  /\ \E entries \in RankInputs :
       /\ call' = [op |-> "compareSide", entries |-> entries]
       /\ result' = CompareSide(entries)
  /\ pc' = "done"
  /\ UNCHANGED BENCHMARK_DATA

Scaffold ==
  /\ pc = "idle"
  /\ \E language \in ToolLanguages, use_case \in ToolUseCases, framework \in Frameworks,
        agent_name \in AgentNames, output_dir \in OutputDirs, now \in Clock,
        generated \in TemplateOutcomes :
       /\ call' = [op |-> "voiceforge_scaffold", language |-> language, use_case |-> use_case,
                   framework |-> framework, agent_name |-> agent_name,
                   output_dir |-> output_dir]
       /\ result' = voiceforge_scaffold(language, use_case, framework, agent_name, output_dir,
                                        now, generated)
  /\ pc' = "done"
  /\ UNCHANGED BENCHMARK_DATA

Validate ==
  /\ pc = "idle"
  /\ \E stt_provider \in ValidateSttProviders, stt_model \in ValidateSttModels,
        llm_provider \in ValidateLlmProviders, llm_model \in ValidateLlmModels,
        tts_provider \in ValidateTtsProviders, tts_model \in ValidateTtsModels,
        framework \in ValidateFrameworks, output_format \in OutputFormats :
       /\ call' = [op |-> "voiceforge_validate",
                   stt_provider |-> stt_provider, stt_model |-> stt_model,
                   llm_provider |-> llm_provider, llm_model |-> llm_model,
                   tts_provider |-> tts_provider, tts_model |-> tts_model,
                   framework |-> framework, output_format |-> output_format]
       /\ result' = voiceforge_validate(stt_provider, stt_model, llm_provider, llm_model,
                                        tts_provider, tts_model, framework, output_format)
  /\ pc' = "done"
  /\ UNCHANGED BENCHMARK_DATA

Health ==
  /\ pc = "idle"
  /\ \E verbose \in BOOLEAN, output_format \in OutputFormats, now \in ClockISO :
       /\ call' = [op |-> "voiceforge_health", verbose |-> verbose,
                   output_format |-> output_format]
       /\ result' = voiceforge_health(verbose, output_format, now)
  /\ pc' = "done"
  /\ BENCHMARK_DATA' = CatalogAfterHealth

Providers ==
  /\ pc = "idle"
  /\ \E category \in ProviderCategories, output_format \in OutputFormats :
       /\ call' = [op |-> "voiceforge_providers", category |-> category,
                   output_format |-> output_format]
       /\ result' = voiceforge_providers(category, output_format)
  /\ pc' = "done"
  /\ UNCHANGED BENCHMARK_DATA

Config ==
  /\ pc = "idle"
  /\ \E agent_name \in ConfigAgentNames, stt_provider \in ConfigSttProviders,
        stt_model \in ConfigSttModels, language \in ConfigLanguages,
        output_format \in OutputFormats, now \in ClockISO :
       /\ call' = [op |-> "voiceforge_config", agent_name |-> agent_name,
                   stt_provider |-> stt_provider, stt_model |-> stt_model,
                   llm_provider |-> "open ai", llm_model |-> "gpt-4.1-mini",
                   tts_provider |-> "Cartesia", tts_model |-> "sonic-3",
                   language |-> language, use_case |-> "customer support",
                   output_format |-> output_format]
       /\ result' = voiceforge_config(agent_name, stt_provider, stt_model, "open ai",
                                      "gpt-4.1-mini", "Cartesia", "sonic-3", language,
                                      "customer support", output_format, now)
  /\ pc' = "done"
  /\ UNCHANGED BENCHMARK_DATA

IsScaffoldCompatible ==
  /\ pc = "idle"
  /\ \E i \in 1..Len(BENCHMARK_DATA), framework \in Frameworks :
       /\ call' = [op |-> "isScaffoldCompatible", entry |-> BENCHMARK_DATA[i],
                   framework |-> framework]
       /\ result' = isScaffoldCompatible(BENCHMARK_DATA[i], framework)
  /\ pc' = "done"
  /\ UNCHANGED BENCHMARK_DATA

ScoreBenchmark ==
  /\ pc = "idle"
  /\ \E entry \in Range(BENCHMARK_DATA) \cup SyntheticRows, weights \in EngineWeights :
       /\ call' = [op |-> "scoreBenchmark", entry |-> entry, weights |-> weights]
       /\ result' = scoreBenchmark(entry, weights)
  /\ pc' = "done"
  /\ UNCHANGED BENCHMARK_DATA

RankBenchmarks ==
  /\ pc = "idle"
  /\ \E entries \in RankInputs, weights \in EngineWeights :
       /\ call' = [op |-> "rankBenchmarks", entries |-> entries, weights |-> weights]
       /\ result' = rankBenchmarks(entries, weights)
  /\ pc' = "done"
  /\ UNCHANGED BENCHMARK_DATA

ResolveUseCase ==
  /\ pc = "idle"
  /\ \E input \in UseCaseInputs :
       /\ call' = [op |-> "resolveUseCase", input |-> input]
       /\ result' = resolveUseCase(input)
  /\ pc' = "done"
  /\ UNCHANGED BENCHMARK_DATA

ResolveLanguage ==
  /\ pc = "idle"
  /\ \E input \in LanguageInputs :
       /\ call' = [op |-> "resolveLanguage", input |-> input]
       /\ result' = resolveLanguage(input)
  /\ pc' = "done"
  /\ UNCHANGED BENCHMARK_DATA

Respond ==
  /\ pc = "done"
  /\ pc' = "idle"
  /\ call' = [op |-> "none"]
  /\ result' = null
  /\ UNCHANGED BENCHMARK_DATA

Next ==
  \/ ResolveProviderMatch
  \/ ToSafeSlug
  \/ ParseProviderWithModel
  \/ ParseComboInput
  \/ ParseComboMatches
  \/ DescribeParsedCombo
  \/ IsScaffoldCompatible
  \/ Health
  \/ Providers
  \/ Config
  \/ ScoreBenchmark
  \/ RankBenchmarks
  \/ ResolveUseCase
  \/ ResolveLanguage
  \/ SelectCompareSide
  \/ Compare
  \/ Benchmark
  \/ Validate
  \/ Recommend
  \/ Scaffold
  \/ Respond

Spec == Init /\ [][Next]_vars

-----------------------------------------------------------------------------
(* Properties                                                              *)

\* the call op has run and its result is in hand
Done(op) == pc = "done" /\ call.op = op

\* the entry a rule selects: none for a normalized input of fewer than 3
\* characters or when no alias qualifies, else the first qualifying entry
FirstQualifying(normalized, Qualifies(_, _)) ==
  LET q == {i \in 1..Len(PROVIDER_ALIAS_CATALOG) :
              Qualifies(PROVIDER_ALIAS_CATALOG[i].alias, normalized)}
  IN  IF Len(normalized) < 3 \/ q = {} THEN null
      ELSE [provider |-> PROVIDER_ALIAS_CATALOG[MinOf(q)].provider,
            matchedAlias |-> PROVIDER_ALIAS_CATALOG[MinOf(q)].alias]

CatalogLongestFirst ==
  \A i, j \in 1..Len(PROVIDER_ALIAS_CATALOG) :
    i < j => Len(PROVIDER_ALIAS_CATALOG[i].alias) >= Len(PROVIDER_ALIAS_CATALOG[j].alias)

\* C1 as stated: resolveProviderMatch answers unresolved for a normalized
\* input shorter than 3 characters, and otherwise with the first entry of the
\* catalog (longest alias first) whose alias equals the normalized input, is
\* a prefix of the normalized input, or is followed by a space at its start.
C1_AliasIsPrefix ==
  Done("resolveProviderMatch") =>
    /\ CatalogLongestFirst
    /\ result = FirstQualifying(normalizeProviderInput(call.input),
                                LAMBDA alias, n : \/ alias = n
                                                  \/ StartsWith(n, alias)
                                                  \/ StartsWith(n, alias \o " "))

\* C1 amended: resolveProviderMatch answers unresolved for a normalized input
\* shorter than 3 characters, and otherwise with the first entry of the
\* catalog (longest alias first) whose alias equals the normalized input, has
\* the normalized input as a prefix, or is followed by a space at the start
\* of the normalized input; unresolved when no entry qualifies.
C1_InputIsPrefix ==
  Done("resolveProviderMatch") =>
    /\ CatalogLongestFirst
    /\ result = FirstQualifying(normalizeProviderInput(call.input),
                                LAMBDA alias, n : \/ alias = n
                                                  \/ StartsWith(alias, n)
                                                  \/ StartsWith(n, alias \o " "))

\* an input resolved although it is a proper prefix of the matched alias
C1_Witness ==
  /\ Done("resolveProviderMatch")
  /\ result # null
  /\ Len(normalizeProviderInput(call.input)) < Len(result.matchedAlias)

\* the aliases that are a whole leading word or phrase of the normalized input
LeadingAliases(normalized) ==
  {PROVIDER_ALIAS_CATALOG[i].alias : i \in
     {k \in 1..Len(PROVIDER_ALIAS_CATALOG) :
        StartsWith(normalized, PROVIDER_ALIAS_CATALOG[k].alias \o " ")}}

\* C2: when two or more aliases are each a whole leading word or phrase of
\* the normalized input, resolveProviderMatch reports the longest of them, so
\* no longer alias than the reported one leads the input.
C2_LongestMatchFirst ==
  Done("resolveProviderMatch") =>
    LET leading == LeadingAliases(normalizeProviderInput(call.input))
    IN  Cardinality(leading) >= 2 =>
          /\ result # null
          /\ result.matchedAlias \in leading
          /\ \A a \in leading : Len(a) <= Len(result.matchedAlias)

\* an input led by both "assembly" and "assembly ai"
C2_Witness ==
  /\ Done("resolveProviderMatch")
  /\ Cardinality(LeadingAliases(normalizeProviderInput(call.input))) >= 2
  /\ result # null
  /\ result.matchedAlias = "assembly ai"

\* C3: parseComboInput yields a combo exactly when the input, split on "+",
\* "," and "->" with empty segments discarded, has three segments that each
\* resolve a provider; the combo takes them in STT, LLM, TTS order; any other
\* input yields no combo at all.
C3_ComboParse ==
  Done("parseComboInput") =>
    LET parts == ComboParts(call.input)
    IN  /\ \A i \in 1..Len(parts) :
             /\ parts[i] # ""
             /\ ~Includes(parts[i], "+") /\ ~Includes(parts[i], ",") /\ ~Includes(parts[i], "->")
        /\ (result # null) <=>
             (Len(parts) = 3 /\ \A i \in 1..3 : resolveProvider(parts[i]) # nullStr)
        /\ result # null =>
             /\ result.stt.provider = resolveProvider(parts[1])
             /\ result.llm.provider = resolveProvider(parts[2])
             /\ result.tts.provider = resolveProvider(parts[3])

\* a parse that succeeds although the input held an empty segment
C3_Witness ==
  /\ Done("parseComboInput")
  /\ result # null
  /\ Len(SplitCombo(call.input)) > 3

\* the parsed part names this provider and, when it names a model, this model
\* up to the hyphenated lowercase slug
PartAgrees(part, provider, model) ==
  /\ part.provider = provider
  /\ (part.model = nullStr \/ normalizeModel(part.model) = normalizeModel(model))

\* C4: parseComboMatches returns exactly the catalog rows that agree with the
\* parsed combo in all three categories, in catalog order.
C4_ComboMatches ==
  (Done("parseComboMatches") /\ result # null) =>
    result.entries =
      SelectSeq(BENCHMARK_DATA,
                LAMBDA row : /\ PartAgrees(result.parsed.stt, row.stt, row.sttModel)
                             /\ PartAgrees(result.parsed.llm, row.llm, row.llmModel)
                             /\ PartAgrees(result.parsed.tts, row.tts, row.ttsModel))

\* a row matched on a model that is written differently from the catalog's
C4_Witness ==
  /\ Done("parseComboMatches")
  /\ result # null
  /\ Len(result.entries) = 1
  /\ result.parsed.tts.model # nullStr
  /\ result.parsed.tts.model # result.entries[1].ttsModel

\* C5: the score is the weighted mean of the three sub-scores rounded to one
\* decimal place: it lies within half a tenth of
\* (latencyScore*wL + qualityScore*wQ + costScore*wC) / (wL + wQ + wC), with
\* latencyScore = max(0, 100 - (L - 100) * 0.5), qualityScore = (Q / 5) * 100
\* and costScore = max(0, 100 - C * 5000).  Both sides are scaled by
\* 20 * (wL + wQ + wC) to stay in the integers.
C5_Score ==
  Done("scoreBenchmark") =>
    LET e == call.entry
        w == call.weights
        total == w.latency + w.quality + w.cost
        mean20 == Max(0, 2 * 100 - (e.latencyMs - 100)) * 10 * w.latency
                    + (e.quality * 2) * 20 * w.quality
                    + Max(0, 100 - e.costPerMin * 5) * 20 * w.cost
        diff == 2 * total * result - mean20
    IN  -total <= diff /\ diff <= total

\* a score of a catalog row whose cost sub-score is clamped to 0
C5_Witness ==
  /\ Done("scoreBenchmark")
  /\ call.entry \in Range(BENCHMARK_DATA)
  /\ call.entry.costPerMin * 5 > 100
  /\ result > 0

\* the row a ranked row annotates
Unscored(r) ==
  [stt |-> r.stt, sttModel |-> r.sttModel, llm |-> r.llm, llmModel |-> r.llmModel,
   tts |-> r.tts, ttsModel |-> r.ttsModel, latencyMs |-> r.latencyMs,
   quality |-> r.quality, costPerMin |-> r.costPerMin, mos |-> r.mos,
   languages |-> r.languages]

\* a may stand before b in a ranking: higher score, then lower latency, then
\* higher quality, then lower cost
InRankOrder(a, b) ==
  \/ a.score > b.score
  \/ /\ a.score = b.score
     /\ \/ a.latencyMs < b.latencyMs
        \/ /\ a.latencyMs = b.latencyMs
           /\ \/ a.quality > b.quality
              \/ a.quality = b.quality /\ a.costPerMin <= b.costPerMin

\* C6: rankBenchmarks returns a permutation of its input rows, each with its
\* score, ordered by score descending, then latency ascending, then quality
\* descending, then cost ascending.
C6_Ranking ==
  Done("rankBenchmarks") =>
    LET n == Len(call.entries)
    IN  /\ Len(result) = n
        /\ \E p \in Permutations(1..n) :
             \A i \in 1..n :
               /\ Unscored(result[i]) = call.entries[p[i]]
               /\ result[i].score = scoreBenchmark(call.entries[p[i]], call.weights)
        /\ \A i, j \in 1..n : i < j => InRankOrder(result[i], result[j])

\* a ranking that moved a row forward on the latency tie-break
C6_Witness ==
  /\ Done("rankBenchmarks")
  /\ Len(result) = 2
  /\ result[1].score = result[2].score
  /\ result[1].latencyMs < result[2].latencyMs
  /\ Unscored(result[1]) = call.entries[2]

\* the rows of the list are catalog rows, no row twice
DistinctCatalogRows(entries) ==
  /\ \A i \in 1..Len(entries) : entries[i] \in Range(BENCHMARK_DATA)
  /\ \A i, j \in 1..Len(entries) : i # j => entries[i] # entries[j]

\* C7: under any weights the comparator puts exactly one of two distinct
\* catalog rows before the other, and the ranking of a set of catalog rows is
\* the same for every order in which the rows are supplied.
C7_StrictTotalOrder ==
  /\ pc = "idle" =>
       \A w \in EngineWeights :
         \A i, j \in 1..Len(BENCHMARK_DATA) :
           i # j =>
             LET a == WithScore(BENCHMARK_DATA[i], scoreBenchmark(BENCHMARK_DATA[i], w))
                 b == WithScore(BENCHMARK_DATA[j], scoreBenchmark(BENCHMARK_DATA[j], w))
             IN  RankBefore(a, b) # RankBefore(b, a)
  /\ (Done("rankBenchmarks") /\ DistinctCatalogRows(call.entries)) =>
       /\ \A i, j \in 1..Len(result) :
            i < j => RankBefore(result[i], result[j]) /\ ~RankBefore(result[j], result[i])
       /\ \A p \in Permutations(1..Len(call.entries)) :
            rankBenchmarks([i \in 1..Len(call.entries) |-> call.entries[p[i]]], call.weights) = result

\* two catalog rows of equal score, ranked against the order they came in
C7_Witness ==
  /\ Done("rankBenchmarks")
  /\ DistinctCatalogRows(call.entries)
  /\ Len(result) = 2
  /\ result[1].score = result[2].score
  /\ Unscored(result[1]) = call.entries[2]

\* C8: under the latency objective's weights (100, 30, 30) no row stands
\* before a row of the same quality and cost and strictly lower latency.
C8_LatencyObjective ==
  (Done("rankBenchmarks") /\ call.weights = getObjectiveWeights("latency", "")) =>
    \A i, j \in 1..Len(result) :
      (/\ i < j
       /\ result[i].quality = result[j].quality
       /\ result[i].costPerMin = result[j].costPerMin) =>
        ~(result[i].latencyMs > result[j].latencyMs)

\* two rows past 300 ms, both with latency sub-score 0, supplied slower first
C8_Witness ==
  /\ Done("rankBenchmarks")
  /\ call.weights = [latency |-> 100, quality |-> 30, cost |-> 30]
  /\ Len(result) = 2
  /\ result[1].quality = result[2].quality
  /\ result[1].costPerMin = result[2].costPerMin
  /\ 300 < result[1].latencyMs
  /\ result[1].latencyMs < result[2].latencyMs
  /\ call.entries[1].latencyMs > call.entries[2].latencyMs

\* the use cases whose canonical key or one of whose aliases is the
\* normalized input
ExactUseCases(normalized) ==
  {USE_CASE_ALIASES[i].useCase : i \in
     {k \in 1..Len(USE_CASE_ALIASES) :
        \/ USE_CASE_ALIASES[k].useCase = normalized
        \/ \E alias \in Range(USE_CASE_ALIASES[k].aliases) : normalizeUseCase(alias) = normalized}}

\* C9: an input whose normalized form is the canonical key or an alias of a
\* use case resolves to that use case; prefix matching decides only when
\* there is no exact match.
C9_ExactMatchFirst ==
  Done("resolveUseCase") =>
    LET exact == ExactUseCases(normalizeUseCase(call.input))
    IN  exact # {} => result \in exact

\* C10: resolveLanguage maps every supported language to itself, and every
\* result is unresolved or a supported language that it maps to itself, so
\* resolving a result again changes nothing.
C10_LanguageIdempotent ==
  Done("resolveLanguage") =>
    /\ call.input \in Range(SUPPORTED_LANGUAGES) => result = call.input
    /\ \/ result = nullStr
       \/ /\ result \in Range(SUPPORTED_LANGUAGES)
          /\ resolveLanguage(result) = result

\* an input resolved through the alias table
C10_Witness ==
  /\ Done("resolveLanguage")
  /\ result # nullStr
  /\ normalizeTerm(call.input) # normalizeTerm(result)
  /\ ~StartsWith(normalizeTerm(result), normalizeTerm(call.input))
  /\ ~StartsWith(normalizeTerm(call.input), normalizeTerm(result))

-----------------------------------------------------------------------------
\* the (STT, LLM, TTS) provider triple of a parsed combo
ProviderTriple(combo) == <<combo.stt.provider, combo.llm.provider, combo.tts.provider>>

\* C11: for every combo string the parser accepts, parsing the description
\* of its parse succeeds and gives the same (STT, LLM, TTS) providers.
C11_RoundTrip ==
  Done("describeParsedCombo") =>
    /\ result.parsed # null
    /\ ProviderTriple(result.parsed) = ProviderTriple(call.combo)

\* a round trip of a combo whose text differs from its description and
\* whose last model is cut from the normalized text
C11_Witness ==
  /\ Done("describeParsedCombo")
  /\ call.input = "llama-4 maverick->Rime ai,open-ai GPT-4.1-mini"
  /\ result.described = "Groq maverick + Rime + OpenAI gpt 4 1 mini"
  /\ result.parsed # null
  /\ ProviderTriple(result.parsed) = <<"Groq", "Rime", "OpenAI">>

-----------------------------------------------------------------------------
\* the catalog rows whose language set contains the language
SupportingRows(language) ==
  SelectSeq(BENCHMARK_DATA, LAMBDA b : language \in Range(b.languages))

\* a >= b on scores; no comparison with NaN holds
ScoreAtLeast(a, b) == a # NaN /\ b # NaN /\ a >= b

\* value (in halves) as a whole number, clamped into [1, 10]
ClampedInto1To10(value) ==
  IF value < 2 THEN 1 ELSE IF value >= 20 THEN 10 ELSE value \div 2

\* C12: when the language resolves and has rows, voiceforge_recommend
\* returns the first min(n, m) rows of the ranking under the objective
\* weights (n the clamped max_results, m the number of rows supporting the
\* language); the list is non-empty, every row supports the language, and
\* the first row has the maximum score among the rows supporting it.
C12_Recommend ==
  Done("voiceforge_recommend") =>
    LET language == resolveLanguage(call.language)
        rows == SupportingRows(language)
        weights == getObjectiveWeights(call.optimize_for, resolveUseCase(call.use_case))
        n == ClampedInto1To10(call.max_results)
    IN  (language # nullStr /\ Len(rows) > 0) =>
          /\ result.kind = "recommendation"
          /\ result.top = SubSeq(rankBenchmarks(rows, weights), 1, Min(n, Len(rows)))
          /\ Len(result.top) > 0
          /\ \A i \in 1..Len(result.top) : language \in Range(result.top[i].languages)
          /\ \A i \in 1..Len(rows) :
               ScoreAtLeast(result.top[1].score, scoreBenchmark(rows[i], weights))

\* the same statement for the calls whose use case is not a property name
\* inherited from Object.prototype
C12_RecommendOwnUseCase ==
  (Done("voiceforge_recommend") /\ normalizeUseCase(call.use_case) \notin InheritedKeys)
    => C12_Recommend

-----------------------------------------------------------------------------
\* C13: for every language input that cannot be resolved, voiceforge_benchmark
\* answers status "error", reason "unsupported-language", with a suggestions
\* list that is non-empty and holds at most 5 supported languages.
C13_UnsupportedLanguage ==
  (Done("voiceforge_benchmark") /\ Truthy(call.language)
     /\ resolveLanguage(call.language) = nullStr) =>
    /\ result.status = "error"
    /\ result.reason = "unsupported-language"
    /\ Len(result.suggestions) > 0
    /\ Len(result.suggestions) <= 5
    /\ Range(result.suggestions) \subseteq Range(SUPPORTED_LANGUAGES)

\* the same statement without the claim that the list is non-empty
C13_AtMostFiveSuggestions ==
  (Done("voiceforge_benchmark") /\ Truthy(call.language)
     /\ resolveLanguage(call.language) = nullStr) =>
    /\ result.status = "error"
    /\ result.reason = "unsupported-language"
    /\ Len(result.suggestions) <= 5
    /\ Range(result.suggestions) \subseteq Range(SUPPORTED_LANGUAGES)

-----------------------------------------------------------------------------
\* the 11 canonical provider names in ascending alphabetical order
ProvidersAscending ==
  <<"Anthropic", "AssemblyAI", "Cartesia", "Deepgram", "ElevenLabs", "Google",
    "Groq", "OpenAI", "PlayHT", "Rime", "Speechmatics">>

\* C14: for every provider filter that cannot be resolved, the language
\* filter being absent or resolvable, voiceforge_benchmark answers status
\* "error", reason "unsupported-provider", and supported_providers is the 11
\* canonical provider names in ascending alphabetical order.
C14_UnsupportedProvider ==
  (/\ Done("voiceforge_benchmark")
   /\ Truthy(call.provider) /\ resolveProvider(call.provider) = nullStr
   /\ (~Truthy(call.language) \/ resolveLanguage(call.language) # nullStr)) =>
    /\ result.status = "error"
    /\ result.reason = "unsupported-provider"
    /\ result.supported_providers = ProvidersAscending
    /\ Range(result.supported_providers) = Range(ALL_PROVIDERS)
    /\ Len(result.supported_providers) = 11

\* an unknown provider with a language filter that resolves by alias
C14_Witness ==
  /\ Done("voiceforge_benchmark")
  /\ call.provider = "NopeAI" /\ call.language = "en"
  /\ result.status = "error" /\ result.reason = "unsupported-provider"
  /\ Len(result.supported_providers) = 11

-----------------------------------------------------------------------------
\* the number of catalog rows that agree with a parsed combo
RowsMatched(parsed) ==
  Cardinality({i \in 1..Len(BENCHMARK_DATA) :
                 /\ PartAgrees(parsed.stt, BENCHMARK_DATA[i].stt, BENCHMARK_DATA[i].sttModel)
                 /\ PartAgrees(parsed.llm, BENCHMARK_DATA[i].llm, BENCHMARK_DATA[i].llmModel)
                 /\ PartAgrees(parsed.tts, BENCHMARK_DATA[i].tts, BENCHMARK_DATA[i].ttsModel)})

\* C15: voiceforge_compare answers "unparseable-combo" exactly when one of
\* the two combos does not parse; when both parse and a side matches no row
\* it answers "no-matching-combo" with the number of rows matched on each
\* side in matches_found; in every remaining case it answers status "ok".
C15_CompareOutcome ==
  Done("voiceforge_compare") =>
    LET parsedA == parseComboInput(call.combo_a)
        parsedB == parseComboInput(call.combo_b)
    IN  IF parsedA = null \/ parsedB = null
        THEN result.status = "error" /\ result.reason = "unparseable-combo"
        ELSE IF RowsMatched(parsedA) = 0 \/ RowsMatched(parsedB) = 0
        THEN /\ result.status = "error"
             /\ result.reason = "no-matching-combo"
             /\ result.matches_found = [a |-> RowsMatched(parsedA), b |-> RowsMatched(parsedB)]
        ELSE result.status = "ok"

\* a real combo against one whose model no row has: {a: 1, b: 0}
C15_Witness ==
  /\ Done("voiceforge_compare")
  /\ call.combo_a = "Deepgram nova-3 + OpenAI gpt-4.1-mini + Cartesia sonic-3"
  /\ call.combo_b = "Deepgram nova-3 + OpenAI gpt-4.999 + Cartesia sonic-3"
  /\ result.status = "error"
  /\ result.reason = "no-matching-combo"
  /\ result.matches_found = [a |-> 1, b |-> 0]

-----------------------------------------------------------------------------
\* C16: for the two selected rows a and b, the latency winner is A iff
\* a.latency <= b.latency, the quality winner is A iff a.quality >=
\* b.quality, the cost winner is A iff a.cost <= b.cost; otherwise the
\* winner is B, so each winner is exactly one of A and B.
C16_Winners ==
  (Done("voiceforge_compare") /\ result.status = "ok") =>
    LET a == result.stacks.a
        b == result.stacks.b
    IN  /\ result.winners.latency \in {"A", "B"}
        /\ result.winners.quality \in {"A", "B"}
        /\ result.winners.cost \in {"A", "B"}
        /\ (result.winners.latency = "A") <=> (a.latencyMs <= b.latencyMs)
        /\ (result.winners.quality = "A") <=> (a.quality >= b.quality)
        /\ (result.winners.cost = "A") <=> (a.costPerMin <= b.costPerMin)

\* two different rows that tie on cost: the tie goes to A, latency to B
C16_Witness ==
  /\ Done("voiceforge_compare")
  /\ result.status = "ok"
  /\ result.stacks.a.stt # result.stacks.b.stt
  /\ result.stacks.a.costPerMin = result.stacks.b.costPerMin
  /\ result.winners.cost = "A"
  /\ result.winners.latency = "B"

-----------------------------------------------------------------------------
\* C17: the ambiguity flag of a side is true iff more than one row matches
\* the side's combo, and the row compared for the side is the first of the
\* ranking of its matching rows under the default weights (70, 70, 60): a
\* row with the highest score.  It is stated of the handler, on the rows of
\* the catalog, and of the selection alone, on any list of matching rows.
C17_Ambiguity ==
  /\ (Done("voiceforge_compare") /\ result.status = "ok") =>
       LET resolvedA == parseComboMatches(call.combo_a)
           resolvedB == parseComboMatches(call.combo_b)
       IN  /\ result.ambiguity.a <=> (RowsMatched(resolvedA.parsed) > 1)
           /\ result.ambiguity.b <=> (RowsMatched(resolvedB.parsed) > 1)
           /\ result.stacks.a = rankBenchmarks(resolvedA.entries, [latency |-> 70, quality |-> 70, cost |-> 60])[1]
           /\ result.stacks.b = rankBenchmarks(resolvedB.entries, [latency |-> 70, quality |-> 70, cost |-> 60])[1]
  /\ (Done("compareSide") /\ Len(call.entries) > 0) =>
       /\ result.ambiguity <=> (Len(call.entries) > 1)
       /\ result.row = rankBenchmarks(call.entries, [latency |-> 70, quality |-> 70, cost |-> 60])[1]
       /\ \A i \in 1..Len(call.entries) :
            /\ result.row.score >= scoreBenchmark(call.entries[i], [latency |-> 70, quality |-> 70, cost |-> 60])
       /\ \E i \in 1..Len(call.entries) :
            result.row = WithScore(call.entries[i], result.row.score)

\* three matching rows, the best of which is not the first
C17_Witness ==
  /\ Done("compareSide")
  /\ Len(call.entries) = 3
  /\ result.ambiguity
  /\ result.row.latencyMs # call.entries[1].latencyMs
  /\ result.row.score > scoreBenchmark(call.entries[1], DEFAULT_WEIGHTS)

-----------------------------------------------------------------------------
\* the allow-set of a framework for a category admits a provider
Admits(allowSet, provider) == allowSet = {} \/ provider \in allowSet

\* C18: for every catalog row and each of the two frameworks,
\* isScaffoldCompatible holds if and only if, for each of the categories stt,
\* llm and tts, the framework's allow-set is empty or contains the row's
\* provider of that category.
C18_ScaffoldCompatible ==
  Done("isScaffoldCompatible") =>
    (result <=>
       /\ Admits(FRAMEWORK_COMPATIBILITY[call.framework].stt, call.entry.stt)
       /\ Admits(FRAMEWORK_COMPATIBILITY[call.framework].llm, call.entry.llm)
       /\ Admits(FRAMEWORK_COMPATIBILITY[call.framework].tts, call.entry.tts))

\* a row is accepted by nextjs, whose stt and llm allow-sets are empty
C18_Witness ==
  /\ Done("isScaffoldCompatible")
  /\ call.framework = "nextjs"
  /\ FRAMEWORK_COMPATIBILITY.nextjs.stt = {}
  /\ result = TRUE

-----------------------------------------------------------------------------
\* the rows of the catalog that support the language and that the framework
\* admits in every category
CompatibleRows(language, framework) ==
  SelectSeq(SupportingRows(language),
            LAMBDA b : /\ Admits(FRAMEWORK_COMPATIBILITY[framework].stt, b.stt)
                       /\ Admits(FRAMEWORK_COMPATIBILITY[framework].llm, b.llm)
                       /\ Admits(FRAMEWORK_COMPATIBILITY[framework].tts, b.tts))

\* the six names of a row as the ok payload reports them
StackOf(b) ==
  [stt |-> b.stt, stt_model |-> b.sttModel, llm |-> b.llm, llm_model |-> b.llmModel,
   tts |-> b.tts, tts_model |-> b.ttsModel]

\* C19: whenever voiceforge_scaffold answers status "ok", the stack is the
\* first compatible row of the ranking of the language's rows under the use
\* case's weights, its score is the maximum among the compatible rows of the
\* language, and the fallback notice is present if and only if the stack
\* differs from the top row of the ranking and the two scores differ by more
\* than 2.0.
C19_ScaffoldFallback ==
  (Done("voiceforge_scaffold") /\ result.status = "ok") =>
    LET language == resolveLanguage(call.language)
        weights == getUseCaseWeights(call.use_case)
        ranked == rankBenchmarks(SupportingRows(language), weights)
        compatible == CompatibleRows(language, call.framework)
        chosen == rankBenchmarks(compatible, weights)[1]
    IN  /\ Len(compatible) > 0
        /\ result.stack = StackOf(chosen)
        /\ \A i \in 1..Len(compatible) :
             ScoreAtLeast(chosen.score, scoreBenchmark(compatible[i], weights))
        /\ (result.fallback_notice # nullStr) <=>
             /\ StackOf(chosen) # StackOf(ranked[1])
             /\ ScoreAtLeast(ranked[1].score, chosen.score + 21)

\* the same statement for the calls whose use case is not a property name
\* inherited from Object.prototype
C19_ScaffoldOwnUseCase ==
  (Done("voiceforge_scaffold") /\ normalizeUseCase(call.use_case) \notin InheritedKeys)
    => C19_ScaffoldFallback

\* ok answers of both kinds: a stack that is not the top row with a notice,
\* and one without
C19_NoticePresent ==
  /\ Done("voiceforge_scaffold")
  /\ result.status = "ok"
  /\ normalizeUseCase(call.use_case) \notin InheritedKeys
  /\ result.fallback_notice # nullStr

C19_NoticeAbsent ==
  /\ Done("voiceforge_scaffold")
  /\ result.status = "ok"
  /\ normalizeUseCase(call.use_case) \notin InheritedKeys
  /\ result.fallback_notice = nullStr
  /\ result.stack #
       StackOf(rankBenchmarks(SupportingRows(resolveLanguage(call.language)),
                              getUseCaseWeights(call.use_case))[1])

-----------------------------------------------------------------------------
\* the known-model list the provider has in the category
KnownModelList(provider, category) == ModelsOf(category, resolveProvider(provider))

\* the supplied model is on the list: a case-insensitive exact comparison
\* of the model without its surrounding blanks
OnList(list, model) ==
  \E i \in 1..Len(list) : toLowerCase(list[i]) = toLowerCase(trim(model))

\* the supplied model is on the list up to the spelling of its separators
OnListUpToSpelling(list, model) ==
  \E i \in 1..Len(list) : normalizeModel(list[i]) = normalizeModel(model)

\* the categories whose provider has a known-model list that lacks the model
AbsentCategories ==
  {category \in {"stt", "llm", "tts"} :
     LET list == KnownModelList(call[category \o "_provider"], category)
     IN  Len(list) > 0 /\ ~OnList(list, call[category \o "_model"])}

UnmatchedCategories ==
  {category \in {"stt", "llm", "tts"} :
     LET list == KnownModelList(call[category \o "_provider"], category)
     IN  Len(list) > 0 /\ ~OnListUpToSpelling(list, call[category \o "_model"])}

ValidateJsonResolved ==
  /\ Done("voiceforge_validate")
  /\ call.output_format = "json"
  /\ resolveProvider(call.stt_provider) # nullStr
  /\ resolveProvider(call.llm_provider) # nullStr
  /\ resolveProvider(call.tts_provider) # nullStr

\* C20: when the three providers resolve, voiceforge_validate with JSON
\* output answers status "warning", reason "unsupported-model" exactly when
\* at least one supplied model is absent from the known-model list its
\* provider has in that category, and unknown_models then lists exactly the
\* categories whose model is absent.
C20_ModelWarning ==
  ValidateJsonResolved =>
    /\ (result.status = "warning") <=> (AbsentCategories # {})
    /\ (result.status = "warning") =>
         /\ result.reason = "unsupported-model"
         /\ Range(result.unknown_models) = AbsentCategories
         /\ Len(result.unknown_models) = Cardinality(AbsentCategories)

\* the same statement with the models compared up to the spelling of
\* their separators
C20_ModelWarningUpToSpelling ==
  ValidateJsonResolved =>
    /\ (result.status = "warning") <=> (UnmatchedCategories # {})
    /\ (result.status = "warning") =>
         /\ result.reason = "unsupported-model"
         /\ Range(result.unknown_models) = UnmatchedCategories
         /\ Len(result.unknown_models) = Cardinality(UnmatchedCategories)

\* a warning that names the llm model alone
C20_Warning ==
  /\ ValidateJsonResolved
  /\ result.status = "warning"
  /\ result.unknown_models = <<"llm">>

-----------------------------------------------------------------------------
OtherFormat(format) == IF format = "json" THEN "markdown" ELSE "json"

\* a field of a payload, or nullStr when the payload has no such field
FieldOr(payload, field) == IF field \in DOMAIN payload THEN payload[field] ELSE nullStr

\* status, reason and selected row of a validate payload
ValidateOutcome(payload) ==
  [status |-> FieldOr(payload, "status"), reason |-> FieldOr(payload, "reason"),
   row |-> FieldOr(payload, "matched_benchmark")]

\* the return statement taken and the selected rows of a recommend result
RecommendOutcome(r) == [kind |-> r.kind, top |-> FieldOr(r, "top")]

\* status, reason and the selected values of a config payload
ConfigOutcome(payload) ==
  [status |-> FieldOr(payload, "status"), reason |-> FieldOr(payload, "reason"),
   config |-> FieldOr(payload, "config")]

\* the call in hand made again with the other output format
ValidateInOtherFormat ==
  voiceforge_validate(call.stt_provider, call.stt_model, call.llm_provider, call.llm_model,
                      call.tts_provider, call.tts_model, call.framework,
                      OtherFormat(call.output_format))

RecommendInOtherFormat ==
  voiceforge_recommend(call.language, call.use_case, call.optimize_for, call.max_results,
                       OtherFormat(call.output_format))

\* C21: the output format does not influence the computed result: every
\* operation reaches the same outcome (status, reason, selected rows) with
\* output_format markdown and json; in particular voiceforge_validate with
\* an unrecognized model reaches the same final status in both formats.
\* (voiceforge_benchmark, voiceforge_compare and voiceforge_scaffold hand
\* output_format to formatToolResponse alone.)
C21_FormatIndependent ==
  /\ Done("voiceforge_validate") =>
       ValidateOutcome(result) = ValidateOutcome(ValidateInOtherFormat)
  /\ Done("voiceforge_recommend") =>
       RecommendOutcome(result) = RecommendOutcome(RecommendInOtherFormat)
  /\ Done("voiceforge_health") =>
       \A now \in ClockISO :
         voiceforge_health(call.verbose, OtherFormat(call.output_format), now).payload.status
           = result.payload.status
  /\ Done("voiceforge_providers") =>
       LET other == voiceforge_providers(call.category, OtherFormat(call.output_format)).payload
       IN  /\ other.status = result.payload.status
           /\ other.total = result.payload.total
  /\ Done("voiceforge_config") =>
       \A now \in ClockISO :
         ConfigOutcome(voiceforge_config(call.agent_name, call.stt_provider, call.stt_model,
                                         call.llm_provider, call.llm_model, call.tts_provider,
                                         call.tts_model, call.language, call.use_case,
                                         OtherFormat(call.output_format), now).payload)
           = ConfigOutcome(result.payload)

\* the same statement for every call but those of voiceforge_validate with
\* a model its provider's list does not match
C21_FormatIndependentButModelWarning ==
  (Done("voiceforge_validate") => FieldOr(result, "status") # "warning"
                                    /\ FieldOr(ValidateInOtherFormat, "status") # "warning")
    => C21_FormatIndependent

-----------------------------------------------------------------------------
\* the handlers whose result is the payload handed to formatToolResponse
PayloadOps ==
  {"voiceforge_benchmark", "voiceforge_compare", "voiceforge_scaffold", "voiceforge_validate"}

\* the handlers whose result holds the response next to the payload
ResponseOps ==
  {"voiceforge_recommend", "voiceforge_health", "voiceforge_providers", "voiceforge_config"}

\* a JSON object with a status of the four and, unless ok, a reason
StatusAndReason(json) ==
  /\ "status" \in DOMAIN json
  /\ json.status \in {"ok", "warning", "error", "fallback"}
  /\ json.status # "ok" => "reason" \in DOMAIN json

\* C22: every JSON response of every operation carries a status field with
\* one of the values ok, warning, error, fallback, and every response whose
\* status is not ok also carries a reason code.
C22_StatusAndReason ==
  /\ (pc = "done" /\ call.op \in PayloadOps) => StatusAndReason(result)
  /\ (pc = "done" /\ call.op \in ResponseOps /\ "json" \in DOMAIN result.response)
       => StatusAndReason(result.response.json)

\* the same statement for the payloads handed to formatToolResponse, but
\* the warning of voiceforge_config
C22_FormattedPayloads ==
  /\ (pc = "done" /\ call.op \in PayloadOps) => StatusAndReason(result)
  /\ (pc = "done" /\ call.op \in ResponseOps \ {"voiceforge_recommend"}
         /\ "json" \in DOMAIN result.response
         /\ ~(call.op = "voiceforge_config" /\ result.payload.status = "warning"))
       => StatusAndReason(result.response.json)

\* the JSON response of voiceforge_recommend has no status field
C22_RecommendWithoutStatus ==
  /\ Done("voiceforge_recommend")
  /\ call.output_format = "json"
  /\ result.kind = "recommendation"
  /\ "status" \notin DOMAIN result.response.json

\* the warning of voiceforge_config has no reason
C22_ConfigWarningWithoutReason ==
  /\ Done("voiceforge_config")
  /\ call.output_format = "json"
  /\ result.response.json.status = "warning"
  /\ "reason" \notin DOMAIN result.response.json

-----------------------------------------------------------------------------
\* a record without one of its fields
Without(r, field) == [f \in DOMAIN r \ {field} |-> r[f]]

\* the call in hand made again at the moment now
HealthAt(now) == voiceforge_health(call.verbose, call.output_format, now)

ConfigAt(now) ==
  voiceforge_config(call.agent_name, call.stt_provider, call.stt_model, call.llm_provider,
                    call.llm_model, call.tts_provider, call.tts_model, call.language,
                    call.use_case, call.output_format, now)

ScaffoldAt(now, generated) ==
  voiceforge_scaffold(call.language, call.use_case, call.framework, call.agent_name,
                      call.output_dir, now, generated)

\* C23: every operation is a pure function of the catalogs and its request
\* arguments: the same call made at any other time returns the same
\* response.
C23_Deterministic ==
  /\ Done("voiceforge_health") => \A now \in ClockISO : HealthAt(now) = result
  /\ Done("voiceforge_config") => \A now \in ClockISO : ConfigAt(now) = result
  /\ Done("voiceforge_scaffold") =>
       \E generated \in TemplateOutcomes : \A now \in Clock : ScaffoldAt(now, generated) = result
  /\ Done("voiceforge_recommend") =>
       result = voiceforge_recommend(call.language, call.use_case, call.optimize_for,
                                     call.max_results, call.output_format)
  /\ Done("voiceforge_benchmark") =>
       result = voiceforge_benchmark(call.language, call.provider, call.sort_by)
  /\ Done("voiceforge_compare") => result = voiceforge_compare(call.combo_a, call.combo_b)
  /\ Done("voiceforge_validate") =>
       result = voiceforge_validate(call.stt_provider, call.stt_model, call.llm_provider,
                                    call.llm_model, call.tts_provider, call.tts_model,
                                    call.framework, call.output_format)
  /\ Done("voiceforge_providers") =>
       result = voiceforge_providers(call.category, call.output_format)

\* the responses apart from the time: the health payload without its
\* timestamp, the config payload without its YAML text (which holds the
\* time of generation), and the scaffolds whose name is not made of the time
C23_DeterministicButClock ==
  /\ Done("voiceforge_health") =>
       \A now \in ClockISO :
         Without(HealthAt(now).payload, "timestamp") = Without(result.payload, "timestamp")
  /\ Done("voiceforge_config") =>
       \A now \in ClockISO :
         Without(ConfigAt(now).payload, "yaml") = Without(result.payload, "yaml")
  /\ (Done("voiceforge_scaffold") /\ toSafeSlug(call.agent_name) # "") =>
       \E generated \in TemplateOutcomes : \A now \in Clock : ScaffoldAt(now, generated) = result

\* a health response whose timestamp another moment would not give
C23_HealthTimestamp ==
  /\ Done("voiceforge_health")
  /\ \E now \in ClockISO : HealthAt(now).payload.timestamp # result.payload.timestamp

-----------------------------------------------------------------------------
\* C24: the catalog is never mutated: after any sequence of operations
\* BENCHMARK_DATA holds the rows of startup, with the same field values, in
\* the same order.
C24_CatalogNeverMutated == BENCHMARK_DATA = BenchmarkRows

\* voiceforge_benchmark without filters has answered the rows in another
\* order than the catalog's, and the catalog is as it was
C24_Witness ==
  /\ Done("voiceforge_benchmark")
  /\ ~Truthy(call.language)
  /\ ~Truthy(call.provider)
  /\ result.count = Len(BenchmarkRows)
  /\ result.rows # BenchmarkRows
  /\ BENCHMARK_DATA = BenchmarkRows

-----------------------------------------------------------------------------
\* the supported languages that some row of the catalog lists
CoveredLanguages ==
  {l \in Range(SUPPORTED_LANGUAGES) :
     \E i \in 1..Len(BENCHMARK_DATA) : l \in Range(BENCHMARK_DATA[i].languages)}

\* C25: the 12 rows of the catalog cover the 10 supported languages: each
\* supported language is listed by at least one row, so voiceforge_recommend
\* answers a non-empty ranking for every supported language.
C25_EveryLanguageCovered ==
  /\ Len(BENCHMARK_DATA) = 12
  /\ Len(SUPPORTED_LANGUAGES) = 10
  /\ CoveredLanguages = Range(SUPPORTED_LANGUAGES)
  /\ (Done("voiceforge_recommend") /\ resolveLanguage(call.language) # nullStr) =>
       /\ result.kind = "recommendation"
       /\ Len(result.top) > 0

\* the same statement for the languages that rows list: all but Mandarin
\* and Malay
C25_CoveredLanguages ==
  /\ Len(BENCHMARK_DATA) = 12
  /\ Len(SUPPORTED_LANGUAGES) = 10
  /\ CoveredLanguages = Range(SUPPORTED_LANGUAGES) \ {"Mandarin", "Malay"}
  /\ (Done("voiceforge_recommend") /\ resolveLanguage(call.language) \in CoveredLanguages) =>
       /\ result.kind = "recommendation"
       /\ Len(result.top) > 0
  /\ (Done("voiceforge_recommend") /\ resolveLanguage(call.language) \in {"Mandarin", "Malay"})
       => result.kind = "no-benchmarks"

\* a supported language for which voiceforge_recommend finds no rows
C25_NoBenchmarks ==
  /\ Done("voiceforge_recommend")
  /\ resolveLanguage(call.language) \in Range(SUPPORTED_LANGUAGES)
  /\ result.kind = "no-benchmarks"

-----------------------------------------------------------------------------
\* the normalized text of the segment in hand after the alias it matched
NormalizedRemainder ==
  trim(SliceFrom(normalizeTerm(call.input), Len(resolveProviderMatch(call.input).matchedAlias)))

\* the segment holds a provider and text after its alias
HasModelText ==
  /\ Done("parseProviderWithModel")
  /\ resolveProviderMatch(call.input) # null
  /\ NormalizedRemainder # ""

\* the alias is typed with blanks between its words and nothing else
AliasTypedWithBlanks ==
  LET words == SplitWhitespace(trim(call.input))
      n == Len(SplitWhitespace(resolveProviderMatch(call.input).matchedAlias))
  IN  /\ n <= Len(words)
      /\ normalizeTerm(Join(SubSeq(words, 1, n), " ")) = resolveProviderMatch(call.input).matchedAlias

\* C26: when a segment resolves a provider and the normalized remainder
\* after the matched alias is not empty, the returned model normalizes to
\* exactly that remainder: no word of the model is dropped and no word of
\* the alias is included, also when the alias is typed with a hyphen.
C26_ModelIsRemainder ==
  HasModelText =>
    /\ result # null
    /\ result.model # nullStr
    /\ normalizeTerm(result.model) = NormalizedRemainder

\* the same statement for the segments whose alias is typed with blanks
C26_ModelIsRemainderTypedWithBlanks ==
  (HasModelText /\ AliasTypedWithBlanks) => C26_ModelIsRemainder

\* a hyphen in the alias makes one word of two: a word of the model is lost
C26_WordDropped ==
  /\ HasModelText
  /\ call.input = "open-ai gpt-4.1-mini extra"
  /\ result.model = "extra"

-----------------------------------------------------------------------------
\* lowercase letters, digits and single hyphens, no hyphen at either end
SlugForm(slug) ==
  /\ Chars(slug) \subseteq Alnum \cup {"-"}
  /\ ~Includes(slug, "--")
  /\ ~StartsWith(slug, "-")
  /\ slug = "" \/ Ch(slug, Len(slug)) # "-"

\* C27: for every input, the result of toSafeSlug has at most 80
\* characters, consists of lowercase letters, digits and single hyphens,
\* and neither starts nor ends with a hyphen, also when the slug is longer
\* than 80 characters before it is cut.
C27_SlugForm ==
  Done("toSafeSlug") => (Len(result) <= 80 /\ SlugForm(result))

\* the same statement for the inputs whose slug is not cut at a hyphen
C27_SlugFormNotCutAtHyphen ==
  (Done("toSafeSlug") /\ (Len(SlugOf(call.value)) <= 80 \/ Ch(SlugOf(call.value), 80) # "-"))
    => C27_SlugForm

\* a slug cut to 80 characters that ends with a hyphen
C27_CutAtHyphen ==
  /\ Done("toSafeSlug")
  /\ Len(result) = 80
  /\ Ch(result, 80) = "-"

-----------------------------------------------------------------------------
\* the known models of the call's provider in a category that the supplied
\* model matches in the known-model check
MatchedKnownModels(category) ==
  LET list == KnownModelList(call[category \o "_provider"], category)
  IN  {list[i] : i \in {k \in 1..Len(list) : modelMatches(list[k], call[category \o "_model"])}}

\* the known models of the call's provider in a category that the supplied
\* model equals up to case and surrounding blanks
EqualKnownModels(category) ==
  LET list == KnownModelList(call[category \o "_provider"], category)
  IN  {list[i] : i \in {k \in 1..Len(list) :
                          toLowerCase(list[k]) = toLowerCase(trim(call[category \o "_model"]))}}

\* the catalog rows of the call's three providers with the given models
RowsOfStack(sttModels, llmModels, ttsModels) ==
  {i \in 1..Len(BenchmarkRows) :
     /\ BenchmarkRows[i].stt = resolveProvider(call.stt_provider)
     /\ BenchmarkRows[i].llm = resolveProvider(call.llm_provider)
     /\ BenchmarkRows[i].tts = resolveProvider(call.tts_provider)
     /\ BenchmarkRows[i].sttModel \in sttModels
     /\ BenchmarkRows[i].llmModel \in llmModels
     /\ BenchmarkRows[i].ttsModel \in ttsModels}

\* validate answers ok with the row as matched_benchmark
AnswersRow(row) ==
  /\ result.status = "ok"
  /\ result.matched_benchmark.stt = row.stt
  /\ result.matched_benchmark.stt_model = row.sttModel
  /\ result.matched_benchmark.llm = row.llm
  /\ result.matched_benchmark.llm_model = row.llmModel
  /\ result.matched_benchmark.tts = row.tts
  /\ result.matched_benchmark.tts_model = row.ttsModel

ValidateProvidersResolved ==
  /\ Done("voiceforge_validate")
  /\ resolveProvider(call.stt_provider) # nullStr
  /\ resolveProvider(call.llm_provider) # nullStr
  /\ resolveProvider(call.tts_provider) # nullStr

\* C28: in voiceforge_validate the known-model check and the catalog match
\* agree: when the three providers resolve, each supplied model passes the
\* known-model check by matching a known model M of its provider, and the
\* catalog holds a row with these providers and those models M, validate
\* answers status "ok" with that row as matched_benchmark.
C28_CheckAndMatchAgree ==
  ValidateProvidersResolved =>
    \A i \in RowsOfStack(MatchedKnownModels("stt"), MatchedKnownModels("llm"),
                         MatchedKnownModels("tts")) :
      AnswersRow(BenchmarkRows[i])

\* the same statement for models that equal the known model up to case and
\* surrounding blanks
C28_CheckAndMatchAgreeOnEqualModels ==
  ValidateProvidersResolved =>
    \A i \in RowsOfStack(EqualKnownModels("stt"), EqualKnownModels("llm"),
                         EqualKnownModels("tts")) :
      AnswersRow(BenchmarkRows[i])

\* a stack whose models pass the known-model check and name a catalog row,
\* answered with no exact match
C28_KnownButUnmatched ==
  /\ ValidateProvidersResolved
  /\ RowsOfStack(MatchedKnownModels("stt"), MatchedKnownModels("llm"),
                 MatchedKnownModels("tts")) # {}
  /\ result.status = "error"
  /\ result.reason = "no-exact-match"
  /\ result.model_warnings = <<>>

\* a stack spelled as the catalog spells it, answered with its row
C28_EqualAndMatched ==
  /\ ValidateProvidersResolved
  /\ RowsOfStack(EqualKnownModels("stt"), EqualKnownModels("llm"), EqualKnownModels("tts")) # {}
  /\ result.status = "ok"

-----------------------------------------------------------------------------
\* the answer to the benchmark call of the state under another sort_by
BenchmarkSortedBy(sort_by) == voiceforge_benchmark(call.language, call.provider, sort_by)

BenchmarkWithRows ==
  /\ Done("voiceforge_benchmark")
  /\ result.status = "ok"
  /\ result.count > 0

\* the rows of the answer that attain the summarised metric
TiedFastest == {i \in 1..result.count : result.rows[i].latencyMs = result.summary.fastest.latencyMs}

TiedBestQuality == {i \in 1..result.count : result.rows[i].quality = result.summary.best_quality.quality}

TiedCheapest == {i \in 1..result.count : result.rows[i].costPerMin = result.summary.cheapest.costPerMin}

\* C29: the summary of voiceforge_benchmark (fastest, best_quality and
\* cheapest rows) depends only on the filtered set of rows: for every
\* language and provider filter the three summary rows are the same for
\* sort_by latency, quality and cost, also when several rows tie on the
\* summarised metric.
C29_SummaryIndependentOfSort ==
  BenchmarkWithRows =>
    \A sort_by \in BenchmarkSorts : BenchmarkSortedBy(sort_by).summary = result.summary

\* the same statement for the summary rows that no other row ties with,
\* and for the summarised values
C29_SummaryIndependentOfSortButTies ==
  BenchmarkWithRows =>
    \A sort_by \in BenchmarkSorts :
      /\ BenchmarkSortedBy(sort_by).summary.fastest.latencyMs = result.summary.fastest.latencyMs
      /\ BenchmarkSortedBy(sort_by).summary.best_quality.quality
           = result.summary.best_quality.quality
      /\ BenchmarkSortedBy(sort_by).summary.cheapest.costPerMin
           = result.summary.cheapest.costPerMin
      /\ Cardinality(TiedFastest) = 1
           => BenchmarkSortedBy(sort_by).summary.fastest = result.summary.fastest
      /\ Cardinality(TiedBestQuality) = 1
           => BenchmarkSortedBy(sort_by).summary.best_quality = result.summary.best_quality
      /\ Cardinality(TiedCheapest) = 1
           => BenchmarkSortedBy(sort_by).summary.cheapest = result.summary.cheapest

\* two sorts of the same filtered rows whose summaries name different rows
C29_SummaryFollowsSort ==
  /\ BenchmarkWithRows
  /\ \E sort_by \in BenchmarkSorts : BenchmarkSortedBy(sort_by).summary # result.summary

-----------------------------------------------------------------------------
\* the (STT provider, LLM provider, TTS provider) trio of a row
TrioOf(entry) == <<entry.stt, entry.llm, entry.tts>>

\* C30: no two rows of the shipped catalog share their provider trio; hence
\* parseComboMatches returns at most one row for every combo, and
\* voiceforge_compare never reports an ambiguity on either side and reports
\* candidate_counts of 1 and 1 on an ok response.
C30_OneRowPerTrio ==
  /\ \A i, j \in 1..Len(BENCHMARK_DATA) :
       TrioOf(BENCHMARK_DATA[i]) = TrioOf(BENCHMARK_DATA[j]) => i = j
  /\ (Done("parseComboMatches") /\ result # null) => Len(result.entries) <= 1
  /\ (Done("voiceforge_compare") /\ result.status = "ok") =>
       /\ ~result.ambiguity.a
       /\ ~result.ambiguity.b
       /\ result.candidate_counts = [a |-> 1, b |-> 1]

\* a comparison of two different stacks named by their providers alone
C30_Witness ==
  /\ Done("voiceforge_compare")
  /\ result.status = "ok"
  /\ parseComboInput(call.combo_a).stt.model = nullStr
  /\ parseComboInput(call.combo_a).llm.model = nullStr
  /\ parseComboInput(call.combo_a).tts.model = nullStr
  /\ parseComboInput(call.combo_b).tts.model = nullStr
  /\ result.stacks.a # result.stacks.b
  /\ result.candidate_counts.a = 1

====
